---- MODULE Spec2Model ----
(***************************************************************************)
(* A model of GradDFT's energy-and-Fock predictor (grad_dft/train.py), of  *)
(* the precomputed-data loader (interface/pyscf.py) and of the SCF         *)
(* fixed-point iterator.                                                   *)
(*                                                                         *)
(* Numbers.  Every array entry is an integer.  The inputs are drawn from   *)
(* even integers, so that the one halving the predictor performs,          *)
(* 1/2 * (fock + fock^T), is exact in integer arithmetic.                  *)
(*                                                                         *)
(* Automatic differentiation.  A generator's output is a dual value        *)
(* [val, tan]: val is the output value, tan the derivative information     *)
(* the output carries in the differentiation graph (w.r.t. rdm1).          *)
(* stop_gradient keeps val and clears tan.                                 *)
(***************************************************************************)
EXTENDS Integers, Sequences, FiniteSets, TLC

\* ------------------------------------------------------------- bounds
NOrb == 2
MaxParam == 1
MaxCycles == 3
MaxTol == 2
MaxU == 2
MaxField == 2
MaxOmega == 2
MaxStored == 2
MaxMols == 2
MaxGroups == 2
MaxOthers == 2
MaxSteps == 3
MaxWeight == 1
MaxRank == 4
MaxAo == 2

\* ---------------------------------------------------------- constants
\* jnp.stack([molecule.h1e, molecule.h1e], axis=0): two spin slices.
NSpin == 2

Spins == 0 .. (NSpin - 1)
Orbs == 1 .. NOrb

\* ============================================================ arrays
\* A spin-indexed square matrix, shape (n_spin, n_orbitals, n_orbitals).
ZeroMat == [s \in Spins |-> [i \in Orbs |-> [j \in Orbs |-> 0]]]

UnitMat(s0, i0, j0, v) ==
  [s \in Spins |-> [i \in Orbs |-> [j \in Orbs |->
      IF s = s0 /\ i = i0 /\ j = j0 THEN v ELSE 0]]]

\* fock.transpose(0, 2, 1)
Transpose(m) == [s \in Spins |-> [i \in Orbs |-> [j \in Orbs |-> m[s][j][i]]]]

MatAdd(a, b) ==
  [s \in Spins |-> [i \in Orbs |-> [j \in Orbs |-> a[s][i][j] + b[s][i][j]]]]

MatScale(k, a) ==
  [s \in Spins |-> [i \in Orbs |-> [j \in Orbs |-> k * a[s][i][j]]]]

\* 1 / 2 * m  (exact: the entries of m are even)
MatHalf(m) ==
  [s \in Spins |-> [i \in Orbs |-> [j \in Orbs |-> m[s][i][j] \div 2]]]

\* jnp.stack([h, h], axis=0) of an (n_orbitals, n_orbitals) matrix h
Stack(h) == [s \in Spins |-> h]

IsSymmetric(m) == \A s \in Spins : \A i, j \in Orbs : m[s][i][j] = m[s][j][i]

IsSymmetric2(h) == \A i, j \in Orbs : h[i][j] = h[j][i]

RECURSIVE SumOver(_, _)
\* sum of f[x] over the finite set S
SumOver(f, S) ==
  IF S = {} THEN 0
  ELSE LET x == CHOOSE y \in S : TRUE IN f[x] + SumOver(f, S \ {x})

\* The input matrices: the zero matrix, and matrices with one non-zero (even)
\* entry, on the diagonal (symmetric) or off it (not symmetric).
Mats == {ZeroMat, UnitMat(0, 1, NOrb, 2), UnitMat(1, 1, 1, 2)}

Zero2 == [i \in Orbs |-> [j \in Orbs |-> 0]]

\* Core Hamiltonians: zero, symmetric and non-symmetric.
H1es ==
  {Zero2,
   [i \in Orbs |-> [j \in Orbs |-> IF i = j THEN 2 ELSE 0]],
   [i \in Orbs |-> [j \in Orbs |-> IF i = 1 /\ j = NOrb /\ NOrb > 1 THEN 2 ELSE 0]]}

\* Two-electron repulsion tensors (pq|rt) as mol.intor('int2e') gives them:
\* symmetric under p <-> q and r <-> t.
ZeroRep == [p \in Orbs |-> [q \in Orbs |-> [r \in Orbs |-> [t \in Orbs |-> 0]]]]

RepTensors ==
  {[p \in Orbs |-> [q \in Orbs |-> [r \in Orbs |-> [t \in Orbs |->
       IF p = q /\ r = t THEN 2 ELSE 0]]]],
   [p \in Orbs |-> [q \in Orbs |-> [r \in Orbs |-> [t \in Orbs |->
       IF (p = q) = (r = t) THEN 2 ELSE 0]]]]}

\* Density matrices of the molecule handed to predict.
Rdm1s ==
  {[s \in Spins |-> [i \in Orbs |-> [j \in Orbs |-> IF i = j /\ i = 1 THEN 2 ELSE 0]]],
   [s \in Spins |-> [i \in Orbs |-> [j \in Orbs |->
       IF i = j THEN 2 ELSE IF s = 0 THEN 2 ELSE 0]]]}

\* ===================================================== dual values
NoneVal == [some |-> FALSE, val |-> 0, tan |-> ZeroMat]

Dual(v, t) == [some |-> TRUE, val |-> v, tan |-> t]

\* jax.lax.stop_gradient: the value is kept, the derivative information is cut.
StopGradient(x) == [x EXCEPT !.tan = ZeroMat]

\* functional.combine_densities / functional.combine_inputs: merges the two
\* channels (values and derivative information add).
Combine(g, n) == Dual(g.val + n.val, MatAdd(g.tan, n.tan))

\* ====================================================== the Functional
\* What an explicit-gradient hook of the functional returns (vxc_expl).
HookMats == Mats \ {ZeroMat}

\* The derivative information a without-grad generator's internal
\* implementation attaches to its output value.
NogradTans == {ZeroMat, UnitMat(0, 1, NOrb, 2)}

\* A Functional: each optional callable is present (TRUE) or None (FALSE).
\* weights is the opaque energy map, E = params * <weights, rdm1>;
\* vxc_d and vxc_c are what the hooks return.
Functionals ==
  {f \in [energy_densities : BOOLEAN, nograd_densities : BOOLEAN,
          densitygrads : BOOLEAN, coefficient_inputs : BOOLEAN,
          nograd_coefficient_inputs : BOOLEAN,
          coefficient_input_grads : BOOLEAN, is_xc : BOOLEAN,
          weights : Mats, vxc_d : HookMats \cup {ZeroMat},
          vxc_c : HookMats \cup {ZeroMat}, nograd_tan : NogradTans] :
     /\ (f.vxc_d = ZeroMat) = ~f.densitygrads
     /\ (f.vxc_c = ZeroMat) = ~f.coefficient_input_grads
     /\ (~f.nograd_densities /\ ~f.nograd_coefficient_inputs)
           => f.nograd_tan = ZeroMat}

\* The invariant of a registered functional: an explicit-gradient hook comes
\* with the without-grad generator it differentiates.
ValidFunctional(f) ==
  /\ f.densitygrads => f.nograd_densities
  /\ f.coefficient_input_grads => f.nograd_coefficient_inputs

\* The generators the functional provides.
PresentOf(f) ==
  (IF f.energy_densities THEN {"energy_densities"} ELSE {}) \cup
  (IF f.nograd_densities THEN {"nograd_densities"} ELSE {}) \cup
  (IF f.coefficient_inputs THEN {"coefficient_inputs"} ELSE {}) \cup
  (IF f.nograd_coefficient_inputs THEN {"nograd_coefficient_inputs"} ELSE {})

NoRep == [present |-> FALSE, t |-> ZeroRep]

Molecules ==
  [rdm1 : Rdm1s, h1e : H1es,
   rep_tensor : {NoRep} \cup {[present |-> TRUE, t |-> r] : r \in RepTensors}]

\* params: the functional's parameters, and the optional "dispersion" entry.
Params == [w : 1 .. MaxParam, has_dispersion : BOOLEAN, dispersion : {2}]

\* The output of the functional's generators on a molecule.
GenOutput(f, name) ==
  CASE name = "energy_densities" -> Dual(1, ZeroMat)
    [] name = "nograd_densities" -> Dual(2, f.nograd_tan)
    [] name = "coefficient_inputs" -> Dual(4, ZeroMat)
    [] name = "nograd_coefficient_inputs" -> Dual(8, f.nograd_tan)

Inner(a, b) ==
  SumOver([x \in Spins \X Orbs \X Orbs |-> a[x[1]][x[2]][x[3]] * b[x[1]][x[2]][x[3]]],
          Spins \X Orbs \X Orbs)

\* functional.energy(params, molecule), as the detailed code of the SCF example
\* spells it out: the with-grad and the stop-gradiented without-grad features
\* are combined and fed to the parameterized function.
FunctionalEnergy(f, p, m) ==
  LET nd == IF f.nograd_densities
            THEN StopGradient(GenOutput(f, "nograd_densities")) ELSE NoneVal
      nc == IF f.nograd_coefficient_inputs
            THEN StopGradient(GenOutput(f, "nograd_coefficient_inputs")) ELSE NoneVal
      gd == IF f.energy_densities THEN GenOutput(f, "energy_densities") ELSE NoneVal
      gc == IF f.coefficient_inputs THEN GenOutput(f, "coefficient_inputs") ELSE NoneVal
  IN Dual(p.w * Inner(f.weights, m.rdm1) + gd.val + nd.val + gc.val + nc.val,
          MatAdd(MatScale(p.w, f.weights),
                 MatAdd(MatAdd(gd.tan, nd.tan), MatAdd(gc.tan, nc.tan))))

\* (a predictor that reads params["dispersion"] whether or not a dispersion
\* functional was given)
EnergyAndGradsWithDispersion(f, nlc, p, rdm1, m) ==
  LET mol == [m EXCEPT !.rdm1 = rdm1]
      e == FunctionalEnergy(f, p, mol)
  IN IF ~p.has_dispersion
     THEN [err |-> "KeyError", energy |-> 0, grad |-> ZeroMat]
     ELSE [err |-> "", energy |-> e.val + p.dispersion, grad |-> e.tan]

\* energy_and_grads: value_and_grad(argnums=1) of the energy of
\* molecule.replace(rdm1=rdm1).  The dispersion energy is added when a
\* dispersion functional was given; it reads params["dispersion"], and a
\* params without that entry raises KeyError.
EnergyAndGrads(f, nlc, p, rdm1, m) ==
  LET mol == [m EXCEPT !.rdm1 = rdm1]
      e == FunctionalEnergy(f, p, mol)
  IN IF nlc /\ ~p.has_dispersion
     THEN [err |-> "KeyError", energy |-> 0, grad |-> ZeroMat]
     ELSE [err |-> "",
           energy |-> IF nlc THEN e.val + p.dispersion ELSE e.val,
           grad |-> e.tan]

\* (a predictor that returns the raw gradient)
SymmetrizeSkipped(g) == g

\* fock = 1 / 2 * (fock + fock.transpose(0, 2, 1))
Symmetrize(g) == MatHalf(MatAdd(g, Transpose(g)))

\* (a predictor that forgets the stop_gradient)
NogradDensitiesLeaking(f) == GenOutput(f, "nograd_densities")

\* stop_gradient(functional.nograd_densities(molecule, ...))
NogradDensities(f) == StopGradient(GenOutput(f, "nograd_densities"))

\* stop_gradient(functional.nograd_coefficient_inputs(molecule, ...))
NogradCinputs(f) == StopGradient(GenOutput(f, "nograd_coefficient_inputs"))

\* (a predictor that branches on the generators instead of on the hook)
DensityChannelsByGenerator(f) ==
  IF f.energy_densities /\ f.nograd_densities
  THEN [err |-> FALSE, called |-> {"energy_densities", "nograd_densities"},
        grad |-> GenOutput(f, "energy_densities"), nograd |-> NogradDensities(f),
        all |-> Combine(GenOutput(f, "energy_densities"), NogradDensities(f))]
  ELSE IF f.energy_densities
  THEN [err |-> FALSE, called |-> {"energy_densities"},
        grad |-> GenOutput(f, "energy_densities"), nograd |-> NoneVal,
        all |-> GenOutput(f, "energy_densities")]
  ELSE IF f.nograd_densities
  THEN [err |-> FALSE, called |-> {"nograd_densities"},
        grad |-> NoneVal, nograd |-> NogradDensities(f), all |-> NogradDensities(f)]
  ELSE [err |-> FALSE, called |-> {},
        grad |-> NoneVal, nograd |-> NoneVal, all |-> NoneVal]

\* The density channels of predict.  called: the generators the code invokes;
\* err: the code invoked a generator that is None (TypeError).
DensityChannels(f) ==
  IF f.energy_densities /\ f.densitygrads
  THEN LET g == GenOutput(f, "energy_densities")
           ok == f.nograd_densities
           n == IF ok THEN NogradDensities(f) ELSE NoneVal
       IN [err |-> ~ok, called |-> {"energy_densities", "nograd_densities"},
           grad |-> g, nograd |-> n,
           all |-> IF ok THEN Combine(g, n) ELSE NoneVal]
  ELSE IF f.energy_densities
  THEN LET g == GenOutput(f, "energy_densities")
       IN [err |-> FALSE, called |-> {"energy_densities"},
           grad |-> g, nograd |-> NoneVal, all |-> g]
  ELSE IF f.densitygrads
  THEN LET ok == f.nograd_densities
           n == IF ok THEN NogradDensities(f) ELSE NoneVal
       IN [err |-> ~ok, called |-> {"nograd_densities"},
           grad |-> NoneVal, nograd |-> n, all |-> n]
  ELSE [err |-> FALSE, called |-> {},
        grad |-> NoneVal, nograd |-> NoneVal, all |-> NoneVal]

\* (a predictor that passes None on when a without-grad generator is absent)
CoefficientChannelsLenient(f) ==
  LET g == IF f.coefficient_inputs THEN GenOutput(f, "coefficient_inputs") ELSE NoneVal
      n == IF f.coefficient_input_grads /\ f.nograd_coefficient_inputs
           THEN NogradCinputs(f) ELSE NoneVal
  IN [err |-> FALSE,
      called |-> (IF g.some THEN {"coefficient_inputs"} ELSE {}) \cup
                 (IF n.some THEN {"nograd_coefficient_inputs"} ELSE {}),
      grad |-> g, nograd |-> n,
      all |-> IF g.some /\ n.some THEN Combine(g, n) ELSE IF g.some THEN g ELSE n]

\* The coefficient-input channels of predict.
CoefficientChannels(f) ==
  IF f.coefficient_input_grads /\ f.coefficient_inputs
  THEN LET g == GenOutput(f, "coefficient_inputs")
           ok == f.nograd_coefficient_inputs
           n == IF ok THEN NogradCinputs(f) ELSE NoneVal
       IN [err |-> ~ok,
           called |-> {"coefficient_inputs", "nograd_coefficient_inputs"},
           grad |-> g, nograd |-> n,
           all |-> IF ok THEN Combine(g, n) ELSE NoneVal]
  ELSE IF f.coefficient_inputs
  THEN LET g == GenOutput(f, "coefficient_inputs")
       IN [err |-> FALSE, called |-> {"coefficient_inputs"},
           grad |-> g, nograd |-> NoneVal, all |-> g]
  ELSE IF f.coefficient_input_grads
  THEN LET ok == f.nograd_coefficient_inputs
           n == IF ok THEN NogradCinputs(f) ELSE NoneVal
       IN [err |-> ~ok, called |-> {"nograd_coefficient_inputs"},
           grad |-> NoneVal, nograd |-> n, all |-> n]
  ELSE [err |-> FALSE, called |-> {},
        grad |-> NoneVal, nograd |-> NoneVal, all |-> NoneVal]

\* functional.densitygrads(functional, params, molecule, nograd_densities,
\* cinputs, grad_densities): an opaque function of its arguments.
DensityGrads(f, p, nograd_densities, cinputs, grad_densities) ==
  MatAdd(MatScale(p.w, f.vxc_d),
         MatAdd(nograd_densities.tan, MatAdd(cinputs.tan, grad_densities.tan)))

\* functional.coefficient_input_grads(functional, params, molecule,
\* nograd_cinputs, grad_cinputs, densities)
CoefficientInputGrads(f, p, nograd_cinputs, grad_cinputs, densities) ==
  MatAdd(MatScale(p.w, f.vxc_c),
         MatAdd(nograd_cinputs.tan, MatAdd(grad_cinputs.tan, densities.tan)))

\* (a predictor that adds the explicit gradient without its transpose)
AddExplicitUntransposed(fock, vxc_expl) == MatAdd(fock, vxc_expl)

\* fock += vxc_expl + vxc_expl.transpose(0, 2, 1)
AddExplicit(fock, vxc_expl) == MatAdd(fock, MatAdd(vxc_expl, Transpose(vxc_expl)))

\* symmetrize_rdm1: both spin slices become the full (spin-summed) density.
SymmetrizeRdm1(rdm1) ==
  [s \in Spins |-> [i \in Orbs |-> [j \in Orbs |->
      SumOver([x \in Spins |-> rdm1[x][i][j]], Spins)]]]

\* coulomb_potential: einsum("pqrt,srt->spq", rep_tensor, rdm1)
CoulombPotential(rdm1, rep) ==
  [s \in Spins |-> [p \in Orbs |-> [q \in Orbs |->
      SumOver([x \in Orbs \X Orbs |-> rep[p][q][x[1]][x[2]] * rdm1[s][x[1]][x[2]]],
              Orbs \X Orbs)]]]

\* (a predictor that builds the Coulomb potential from rdm1 as it is)
AddClassicalUnsymmetrized(fock, m) ==
  MatAdd(MatAdd(fock, CoulombPotential(m.rdm1, m.rep_tensor.t)), Stack(m.h1e))

\* The is_xc branch of predict, applied to a molecule that has a rep_tensor.
AddClassical(fock, m) ==
  MatAdd(MatAdd(fock, CoulombPotential(SymmetrizeRdm1(m.rdm1), m.rep_tensor.t)),
         Stack(m.h1e))

\* (a predictor that adds each call's Fock operator into a buffer it keeps)
Accumulate(previous, new) ==
  [new EXCEPT !.fock = MatAdd(previous.fock, new.fock)]

\* energy, fock = energy_and_grads(...): the values a call returns are built
\* from the call's own arguments; nothing of an earlier call is read.
Rebuild(previous, new) == new

\* (a predictor that symmetrizes the caller's density matrix in place)
MoleculeSymmetrizedInPlace(f, m) ==
  IF f.is_xc THEN [m EXCEPT !.rdm1 = SymmetrizeRdm1(m.rdm1)] ELSE m

\* The caller's molecule after predict: the energy is evaluated on the copy
\* molecule.replace(rdm1=rdm1) and symmetrize_rdm1 returns a new array, so
\* the molecule holds what it held.
MoleculeAfter(f, m) == m

NoResult ==
  [done |-> FALSE, outcome |-> "none", steps |-> {}, called |-> {},
   returned |-> FALSE, energy |-> 0, fock |-> ZeroMat,
   grad_densities |-> NoneVal, nograd_densities |-> NoneVal, densities |-> NoneVal,
   grad_cinputs |-> NoneVal, nograd_cinputs |-> NoneVal, cinputs |-> NoneVal]

Raised(kind, steps, called) ==
  [NoResult EXCEPT !.done = TRUE, !.outcome = kind, !.steps = steps,
                   !.called = called]

\* predict(params, molecule) of molecule_predictor(functional, nlc_functional).
\* steps: the stages the call ran (or started, for the one that raised).
Predict(f, nlc, p, m) ==
  LET eg == EnergyAndGrads(f, nlc, p, m.rdm1, m)
      d == DensityChannels(f)
      c == CoefficientChannels(f)
      fock0 == Symmetrize(eg.grad)
      fock1 == IF f.densitygrads
               THEN AddExplicit(fock0, DensityGrads(f, p, d.nograd, c.all, d.grad))
               ELSE fock0
      fock2 == IF f.coefficient_input_grads
               THEN AddExplicit(fock1, CoefficientInputGrads(f, p, c.nograd, c.grad, d.all))
               ELSE fock1
      hooks == (IF f.densitygrads THEN {"densitygrads"} ELSE {}) \cup
               (IF f.coefficient_input_grads THEN {"coefficient_input_grads"} ELSE {})
      s1 == {"energy_and_grads"}
      s2 == s1 \cup {"symmetrize", "density_channels"}
      s3 == s2 \cup {"coefficient_channels"}
      s4 == s3 \cup hooks
  IN IF eg.err # "" THEN Raised(eg.err, s1, {})
     ELSE IF d.err THEN Raised("TypeError", s2, d.called)
     ELSE IF c.err THEN Raised("TypeError", s3, d.called \cup c.called)
     ELSE IF f.is_xc /\ ~m.rep_tensor.present
     THEN Raised("TypeError", s4 \cup {"coulomb_potential"}, d.called \cup c.called)
     ELSE [done |-> TRUE, outcome |-> "ok",
           steps |-> s4 \cup (IF f.is_xc THEN {"coulomb_potential", "h1e"} ELSE {}),
           called |-> d.called \cup c.called,
           returned |-> TRUE,
           energy |-> eg.energy,
           fock |-> IF f.is_xc THEN AddClassical(fock2, m) ELSE fock2,
           grad_densities |-> d.grad, nograd_densities |-> d.nograd,
           densities |-> d.all,
           grad_cinputs |-> c.grad, nograd_cinputs |-> c.nograd,
           cinputs |-> c.all]

\* ================================================= the SCF iterator
\* A scalar of the iteration: a finite number, or NaN / Inf.
Num(n) == [fin |-> TRUE, v |-> n]
NaN == [fin |-> FALSE, v |-> 0]
Inf == [fin |-> FALSE, v |-> 1]

Abs(n) == IF n < 0 THEN -n ELSE n

\* Occupation vectors of one spin channel holding n electrons.
Occs(n) == {o \in [Orbs -> {0, 1}] : SumOver(o, Orbs) = n}

\* The configuration of a run and the system it runs on: the cycle budget,
\* the tolerance, the electrons per spin; and the predictor's response: the
\* orbital levels (degenerate or not, and split by a field that acts on spin
\* 1), the repulsion U between the two spins on one orbital, and whether the
\* functional blows up (NaN energy or Inf Fock entries) when orbital
\* blowup_orb is occupied in spin 0.
ScfConfigs ==
  {c \in [max_cycles : 1 .. MaxCycles, tol : 1 .. MaxTol,
          nelec : [Spins -> 0 .. NOrb], U : 0 .. MaxU, degenerate : BOOLEAN,
          field : 0 .. MaxField,
          blowup : {"never", "energy", "fock"}, blowup_orb : Orbs] :
     c.blowup = "never" => c.blowup_orb = 1}

Level(c, s, i) == (IF c.degenerate THEN 1 ELSE i) + s * c.field * (i - 1)

\* (a) (energy, fock) <- Predictor.predict(params, state), in the basis in
\* which the Fock operator is diagonal: fock[s][i] is its i-th diagonal entry.
ScfPredict(c, occ) ==
  LET blow == c.blowup # "never" /\ occ[0][c.blowup_orb] = 1
      e == SumOver([x \in Spins \X Orbs |-> occ[x[1]][x[2]] * Level(c, x[1], x[2])],
                   Spins \X Orbs)
           + c.U * SumOver([i \in Orbs |-> occ[0][i] * occ[1][i]], Orbs)
  IN [energy |-> IF blow /\ c.blowup = "energy" THEN NaN ELSE Num(e),
      fock |-> [s \in Spins |-> [i \in Orbs |->
                  IF blow /\ c.blowup = "fock" THEN Inf
                  ELSE Num(Level(c, s, i) + c.U * occ[1 - s][i])]]]

\* NaN/Inf in energy or fock
Divergent(out) ==
  ~out.energy.fin \/ \E s \in Spins : \E i \in Orbs : ~out.fock[s][i].fin

\* (b) diagonalize fock . C = s1e . C . diag(mo_energy): for a diagonal Fock
\* operator in an orthonormal basis, mo_energy is the diagonal and C = 1.
Diagonalize(fock) == [s \in Spins |-> [i \in Orbs |-> fock[s][i].v]]

\* (an occupation rule that fills every orbital up to the Fermi level)
GetOccUpToFermiLevel(mo_energy, n) ==
  [i \in Orbs |->
     IF Cardinality({j \in Orbs : mo_energy[j] < mo_energy[i]}) < n THEN 1 ELSE 0]

\* (an occupation rule that fills degenerate orbitals from the highest index)
GetOccHighestIndexFirst(mo_energy, n) ==
  [i \in Orbs |->
     IF Cardinality({j \in Orbs : \/ mo_energy[j] < mo_energy[i]
                                  \/ (mo_energy[j] = mo_energy[i] /\ j > i)}) < n
     THEN 1 ELSE 0]

\* (c) occupations: the n lowest-energy orbitals are filled, ties broken by
\* the orbital index.
GetOcc(mo_energy, n) ==
  [i \in Orbs |->
     IF Cardinality({j \in Orbs : \/ mo_energy[j] < mo_energy[i]
                                  \/ (mo_energy[j] = mo_energy[i] /\ j < i)}) < n
     THEN 1 ELSE 0]

\* (d) rdm1[s] = C[s] diag(occ[s]) C[s]^T, with C = 1
MakeRdm1(occ) ==
  [s \in Spins |-> [i \in Orbs |-> [j \in Orbs |-> IF i = j THEN occ[s][i] ELSE 0]]]

\* (e) the convergence metric: the change in energy between cycles; the first
\* cycle has no earlier energy to compare with.
Metric(st, e) ==
  IF st.has_energy THEN [defined |-> TRUE, v |-> Abs(e.v - st.energy.v)]
  ELSE [defined |-> FALSE, v |-> 0]

\* (an iterator without a cycle budget)
ScfStatusUnbounded(c, metric, cycle) ==
  IF metric.defined /\ metric.v < c.tol THEN "CONVERGED" ELSE "ITERATING"

\* (an iterator that reports a run out of cycles as converged)
ScfStatusSilent(c, metric, cycle) ==
  IF metric.defined /\ metric.v < c.tol THEN "CONVERGED"
  ELSE IF cycle >= c.max_cycles THEN "CONVERGED"
  ELSE "ITERATING"

\* (e) the status after a cycle whose predictor output was finite
ScfStatus(c, metric, cycle) ==
  IF metric.defined /\ metric.v < c.tol THEN "CONVERGED"
  ELSE IF cycle >= c.max_cycles THEN "MAX_CYCLES_EXCEEDED"
  ELSE "ITERATING"

InitialScf(occ) ==
  [status |-> "INITIALIZED", cycle |-> 0, mo_occ |-> occ, new_occ |-> occ,
   rdm1 |-> MakeRdm1(occ), energy |-> Num(0), has_energy |-> FALSE,
   metric |-> [defined |-> FALSE, v |-> 0], raised |-> FALSE,
   converged |-> FALSE]

\* (an iterator that clamps a divergent energy and goes on)
ScfCycleClamping(c, st) ==
  LET out == ScfPredict(c, st.mo_occ)
      e == IF out.energy.fin THEN out.energy ELSE Num(0)
      metric == Metric(st, e)
      status == ScfStatus(c, metric, st.cycle + 1)
  IN [st EXCEPT !.status = status, !.cycle = st.cycle + 1, !.energy = e,
                !.has_energy = TRUE, !.metric = metric,
                !.converged = (status = "CONVERGED")]

\* (an iterator that also replaces the state in the cycle that converges)
ScfCycleReplacing(c, st) ==
  LET out == ScfPredict(c, st.mo_occ)
      mo_energy == Diagonalize(out.fock)
      occ == [s \in Spins |-> GetOcc(mo_energy[s], c.nelec[s])]
      metric == Metric(st, out.energy)
      status == ScfStatus(c, metric, st.cycle + 1)
  IN IF Divergent(out)
     THEN [st EXCEPT !.status = "DIVERGED", !.cycle = st.cycle + 1,
                     !.energy = out.energy, !.raised = TRUE]
     ELSE [st EXCEPT !.status = status, !.cycle = st.cycle + 1,
                     !.energy = out.energy, !.has_energy = TRUE,
                     !.metric = metric, !.new_occ = occ,
                     !.converged = (status = "CONVERGED"),
                     !.mo_occ = occ, !.rdm1 = MakeRdm1(occ)]

\* One cycle of the iterator, steps (a) to (f).  A divergent predictor output
\* is fatal in this cycle; a terminal cycle keeps the state it ran on, and
\* otherwise (f) the state is replaced by the new snapshot.
ScfCycle(c, st) ==
  LET out == ScfPredict(c, st.mo_occ)
      mo_energy == Diagonalize(out.fock)
      occ == [s \in Spins |-> GetOcc(mo_energy[s], c.nelec[s])]
      metric == Metric(st, out.energy)
      status == ScfStatus(c, metric, st.cycle + 1)
  IN IF Divergent(out)
     THEN [st EXCEPT !.status = "DIVERGED", !.cycle = st.cycle + 1,
                     !.energy = out.energy, !.raised = TRUE]
     ELSE [st EXCEPT !.status = status, !.cycle = st.cycle + 1,
                     !.energy = out.energy, !.has_energy = TRUE,
                     !.metric = metric, !.new_occ = occ,
                     !.converged = (status = "CONVERGED"),
                     !.mo_occ = IF status = "ITERATING" THEN occ ELSE st.mo_occ,
                     !.rdm1 = IF status = "ITERATING" THEN MakeRdm1(occ) ELSE st.rdm1]

\* (an iterator that updates the state it was given in place)
OverwriteSnapshot(given_occ, new_occ) == new_occ

\* (f) the new snapshot is a new value (immutable update, not mutation): the
\* state object the caller supplied holds what it held.
KeepSnapshot(given_occ, new_occ) == given_occ

NoExtra == [done |-> FALSE, energy |-> Num(0), raised |-> FALSE]

\* ================================================= packaging and shapes
\* The shape of an array is the sequence of its dimensions.
ShapeError == <<0>>

\* a + b on arrays: the shapes are aligned at the right and a dimension of 1
\* is stretched.
Broadcast(a, b) ==
  IF a = ShapeError \/ b = ShapeError THEN ShapeError
  ELSE LET n == IF Len(a) > Len(b) THEN Len(a) ELSE Len(b)
           pad(x) == [i \in 1 .. n |->
                        IF i <= n - Len(x) THEN 1 ELSE x[i - (n - Len(x))]]
       IN IF \A i \in 1 .. n : pad(a)[i] = pad(b)[i] \/ pad(a)[i] = 1 \/ pad(b)[i] = 1
          THEN [i \in 1 .. n |-> IF pad(a)[i] = 1 THEN pad(b)[i] ELSE pad(a)[i]]
          ELSE ShapeError

\* x.transpose(0, 2, 1)
Transpose021(a) == IF Len(a) = 3 THEN <<a[1], a[3], a[2]>> ELSE ShapeError

\* np.stack([x, x], axis=0)
StackTwo(a) == <<NSpin>> \o a

\* (a packaging that keeps a single spin channel for a restricted calculation)
StackRestrictedOnce(dm) == <<1>> \o dm

\* dm = np.stack([half_dm, half_dm], axis=0)
StackRestricted(dm) == StackTwo(dm)

\* The calculation handed to the packaging: the rank of its density matrix,
\* the number of atomic orbitals, and the training flag.
Calculations == [ndim : 1 .. MaxRank, nao : 1 .. MaxAo, training : BOOLEAN]

\* mf.make_rdm1(...): (nao, nao) for a restricted calculation, (2, nao, nao)
\* for an unrestricted one; other ranks are malformed.
DmShape(mf) ==
  IF mf.ndim = 1 THEN <<mf.nao>>
  ELSE IF mf.ndim = 2 THEN <<mf.nao, mf.nao>>
  ELSE IF mf.ndim = 3 THEN <<NSpin, mf.nao, mf.nao>>
  ELSE [i \in 1 .. mf.ndim |-> IF i <= mf.ndim - 2 THEN NSpin ELSE mf.nao]

\* The local names bound when the rank of dm is examined.
BoundAtRankCheck == {"ao_", "dm", "s1e", "h1e"}

\* raise RuntimeError(f"Invalid density matrix shape. Got {dm.shape} for AO
\* shape {ao.shape}"): the message is built first, from dm and ao.
RaiseInvalidShape(names) ==
  IF {"dm", "ao"} \subseteq names THEN "RuntimeError" ELSE "UnboundLocalError"

NotPackaged ==
  [done |-> FALSE, err |-> "none", rdm1 |-> ShapeError, mo_occ |-> ShapeError,
   h1e |-> ShapeError, rep_tensor |-> [present |-> FALSE, shape |-> ShapeError]]

\* _package_outputs(mf, grids, training, scf_iteration): the shapes of what it
\* returns, or the exception it ends in.
PackageOutputs(mf) ==
  LET dm == DmShape(mf)
      packed(rdm1) ==
        [done |-> TRUE, err |-> "ok", rdm1 |-> rdm1, mo_occ |-> <<NSpin, mf.nao>>,
         h1e |-> <<mf.nao, mf.nao>>,
         rep_tensor |-> IF mf.training
                        THEN [present |-> FALSE, shape |-> ShapeError]
                        ELSE [present |-> TRUE,
                              shape |-> <<mf.nao, mf.nao, mf.nao, mf.nao>>]]
  IN IF Len(dm) = 2 THEN packed(StackRestricted(dm))
     ELSE IF Len(dm) = 3 THEN packed(dm)
     ELSE [NotPackaged EXCEPT !.done = TRUE,
                              !.err = RaiseInvalidShape(BoundAtRankCheck)]

NotShaped == [done |-> FALSE, err |-> "none", fock |-> ShapeError]

\* The shape of the Fock operator predict builds for a packaged molecule,
\* step by step; the hooks return an array of the shape of rdm1.
PredictShape(f, mol) ==
  LET grad == mol.rdm1
      fock0 == Broadcast(grad, Transpose021(grad))
      vxc == Broadcast(mol.rdm1, Transpose021(mol.rdm1))
      fock1 == IF f.densitygrads THEN Broadcast(fock0, vxc) ELSE fock0
      fock2 == IF f.coefficient_input_grads THEN Broadcast(fock1, vxc) ELSE fock1
      sym == IF Len(mol.rdm1) = 3 THEN StackTwo(<<mol.rdm1[2], mol.rdm1[3]>>)
             ELSE ShapeError
      coulomb == IF sym = ShapeError THEN ShapeError
                 ELSE IF mol.rep_tensor.shape[3] = sym[2] /\ mol.rep_tensor.shape[4] = sym[3]
                 THEN <<sym[1], mol.rep_tensor.shape[1], mol.rep_tensor.shape[2]>>
                 ELSE ShapeError
      fock3 == Broadcast(Broadcast(fock2, coulomb), StackTwo(mol.h1e))
  IN IF f.is_xc /\ ~mol.rep_tensor.present
     THEN [done |-> TRUE, err |-> "TypeError", fock |-> ShapeError]
     ELSE LET fock == IF f.is_xc THEN fock3 ELSE fock2
          IN [done |-> TRUE, err |-> IF fock = ShapeError THEN "ShapeError" ELSE "ok",
              fock |-> fock]

\* ------------------------------------------------ packaged values
\* A number of a packaged array: num / den.
Whole(x) == [num |-> x, den |-> 1]

\* (a packaging that stacks the restricted arrays without halving them)
NotHalved(x) == [num |-> x, den |-> 1]

\* x / 2
Halve(x) == [num |-> x, den |-> 2]

RatAdd(a, b) == [num |-> a.num * b.den + b.num * a.den, den |-> a.den * b.den]

\* The number r equals the integer x.
RatIs(r, x) == r.num = x * r.den

\* Orbital coefficients in an orthonormal basis: permutation matrices.
MoCoeffs ==
  {c \in [Orbs -> [Orbs -> {0, 1}]] :
     /\ \A i \in Orbs : SumOver(c[i], Orbs) = 1
     /\ \A j \in Orbs : SumOver([i \in Orbs |-> c[i][j]], Orbs) = 1}

MoEnergies == [Orbs -> {0, 1}]

\* mf.make_rdm1(mo_coeff, mo_occ) = C diag(mo_occ) C^T
MakeDm(mo_coeff, mo_occ) ==
  [i \in Orbs |-> [j \in Orbs |->
     SumOver([k \in Orbs |-> mo_coeff[i][k] * mo_occ[k] * mo_coeff[j][k]], Orbs)]]

\* The arrays of a converged calculation: restricted (one set of orbitals,
\* occupations 0 .. 2) or unrestricted (one set per spin, occupations 0, 1).
MeanFields ==
  [restricted : {TRUE}, mo_coeff : MoCoeffs, mo_energy : MoEnergies,
   mo_occ : [Orbs -> 0 .. NSpin]]
    \cup [restricted : {FALSE}, mo_coeff : [Spins -> MoCoeffs],
          mo_energy : [Spins -> MoEnergies], mo_occ : [Spins -> [Orbs -> {0, 1}]]]

\* dm = mf.make_rdm1(mf.mo_coeff, mf.mo_occ): rank 2, or rank 3 (per spin)
MfDm(mf) ==
  IF mf.restricted THEN MakeDm(mf.mo_coeff, mf.mo_occ)
  ELSE [s \in Spins |-> MakeDm(mf.mo_coeff[s], mf.mo_occ[s])]

NoArrays == [done |-> FALSE]

\* _package_outputs: the spin-resolved rdm1, mo_coeff, mo_energy and mo_occ
PackageArrays(mf) ==
  LET dm == MfDm(mf)
  IN IF mf.restricted
     THEN LET half_dm == [i \in Orbs |-> [j \in Orbs |-> Halve(dm[i][j])]]
              half_mo_occ == [i \in Orbs |-> Halve(mf.mo_occ[i])]
          IN [done |-> TRUE,
              rdm1 |-> [s \in Spins |-> half_dm],
              mo_coeff |-> [s \in Spins |-> mf.mo_coeff],
              mo_energy |-> [s \in Spins |-> mf.mo_energy],
              mo_occ |-> [s \in Spins |-> half_mo_occ]]
     ELSE [done |-> TRUE,
           rdm1 |-> [s \in Spins |-> [i \in Orbs |-> [j \in Orbs |->
                       Whole(dm[s][i][j])]]],
           mo_coeff |-> [s \in Spins |-> mf.mo_coeff[s]],
           mo_energy |-> [s \in Spins |-> mf.mo_energy[s]],
           mo_occ |-> [s \in Spins |-> [i \in Orbs |-> Whole(mf.mo_occ[s][i])]]]

\* ================================================= the data loader
RECURSIVE AnyIndex(_, _)
\* seq.index(x): the first position holding x
AnyIndex(seq, x) == IF Head(seq) = x THEN 1 ELSE 1 + AnyIndex(Tail(seq), x)

Range(seq) == {seq[i] : i \in DOMAIN seq}

\* Lists of range-separation parameters, without repetition.
OmegaLists ==
  {l \in UNION {[1 .. n -> 1 .. MaxOmega] : n \in 1 .. MaxStored} :
     \A i, j \in DOMAIN l : l[i] = l[j] => i = j}

\* A molecule group of the file: its "omegas" dataset and its "chi" dataset,
\* which has one channel per stored omega (channel i computed for omegas[i]),
\* or is the one-element placeholder stored for a single omega.
StoredMolecules ==
  {m \in [omegas : OmegaLists, placeholder : BOOLEAN] :
     m.placeholder => Len(m.omegas) = 1}

\* The groups of a file: a top-level molecule (molecule_{name}_{j}), or a
\* reaction holding molecules (reaction_{name}_{i}).  alias: the name of the
\* molecule or reaction itself holds the word of the other kind.
NamedGroups ==
  {g \in [kind : {"molecule", "reaction"}, alias : BOOLEAN,
          mols : UNION {[1 .. n -> StoredMolecules] : n \in 1 .. MaxMols}] :
     g.kind = "molecule" => Len(g.mols) = 1}

Groups == {g \in NamedGroups : ~g.alias}

Files == UNION {[1 .. n -> Groups] : n \in 1 .. MaxGroups}

\* Files of molecules and reactions of any name, with the chi each of them
\* stores for the same omegas.
NamedFiles ==
  UNION {[1 .. n -> {g \in NamedGroups :
                       \A k \in DOMAIN g.mols :
                          g.mols[k] = [omegas |-> <<1>>, placeholder |-> FALSE]}] :
           n \in 1 .. MaxGroups}

\* "molecule" in grp_name / "reaction" in grp_name
NameHolds(g, word) == word = g.kind \/ g.alias

\* config_omegas: None, or a list (possibly empty)
ConfigOmegas ==
  {[some |-> FALSE, list |-> <<>>], [some |-> TRUE, list |-> <<>>]}
    \cup {[some |-> TRUE, list |-> l] : l \in OmegaLists}

\* A loaded chi: None, the whole stored dataset, or the selected channels;
\* channels holds, per channel, the omega the channel was computed for.
NoChi == [some |-> FALSE, placeholder |-> FALSE, channels |-> <<>>]

StoredChi(m) ==
  [some |-> TRUE, placeholder |-> m.placeholder,
   channels |-> IF m.placeholder THEN <<>> ELSE m.omegas]

RECURSIVE KeepRequested(_, _)
KeepRequested(channels, wanted) ==
  IF channels = <<>> THEN <<>>
  ELSE IF Head(channels) \in wanted
       THEN <<Head(channels)>> \o KeepRequested(Tail(channels), wanted)
       ELSE KeepRequested(Tail(channels), wanted)

\* (a loader that keeps the requested channels in the order they are stored)
LoadChiInStoredOrder(m, omegas, config) ==
  IF ~config.some THEN [err |-> "ok", chi |-> StoredChi(m)]
  ELSE IF config.list = <<>> THEN [err |-> "ok", chi |-> NoChi]
  ELSE IF ~omegas.bound THEN [err |-> "UnboundLocalError", chi |-> NoChi]
  ELSE IF ~(Range(config.list) \subseteq Range(omegas.list))
       THEN [err |-> "AssertionError", chi |-> NoChi]
  ELSE IF m.placeholder THEN [err |-> "IndexError", chi |-> NoChi]
  ELSE [err |-> "ok",
        chi |-> [some |-> TRUE, placeholder |-> FALSE,
                 channels |-> KeepRequested(StoredChi(m).channels, Range(config.list))]]

\* The 'chi' branch of the loader for one stored molecule, with the value the
\* local variable omegas has at that point (bound or not).
LoadChi(m, omegas, config) ==
  IF ~config.some THEN [err |-> "ok", chi |-> StoredChi(m)]
  ELSE IF config.list = <<>> THEN [err |-> "ok", chi |-> NoChi]
  ELSE IF ~omegas.bound THEN [err |-> "UnboundLocalError", chi |-> NoChi]
  ELSE IF ~(Range(config.list) \subseteq Range(omegas.list))
       THEN [err |-> "AssertionError", chi |-> NoChi]
  ELSE LET indices == [k \in DOMAIN config.list |-> AnyIndex(omegas.list, config.list[k])]
           stored == StoredChi(m)
       IN IF \E k \in DOMAIN indices : indices[k] > Len(stored.channels)
          THEN [err |-> "IndexError", chi |-> NoChi]
          ELSE [err |-> "ok",
                chi |-> [some |-> TRUE, placeholder |-> FALSE,
                         channels |-> [k \in DOMAIN indices |->
                                         stored.channels[indices[k]]]]]

\* The Molecule built from one stored molecule
LoadedMolecule(m, chi) == [omegas |-> m.omegas, chi |-> chi]

\* The molecule branch: omegas is bound to the group's own list.
LoadMoleculeGroup(g, config) ==
  LET m == g.mols[1]
      omegas == [bound |-> TRUE, list |-> m.omegas]
      c == LoadChi(m, omegas, config)
  IN [err |-> c.err, failed |-> IF c.err = "ok" THEN 0 ELSE 1, omegas |-> omegas,
      item |-> [kind |-> "molecule", mols |-> <<LoadedMolecule(m, c.chi)>>]]

\* The reaction branch: molecule_omegas is read, and the check and the
\* selection use omegas, which the branch never assigns; the first molecule
\* that fails ends the load.
LoadReactionGroup(g, omegas, config) ==
  LET c == [k \in DOMAIN g.mols |-> LoadChi(g.mols[k], omegas, config)]
      bad == {k \in DOMAIN g.mols : c[k].err # "ok"}
      first == IF bad = {} THEN 0 ELSE CHOOSE k \in bad : \A j \in bad : k <= j
  IN [err |-> IF bad = {} THEN "ok" ELSE c[first].err,
      failed |-> first, omegas |-> omegas,
      item |-> [kind |-> "reaction",
                mols |-> [k \in DOMAIN g.mols |-> LoadedMolecule(g.mols[k], c[k].chi)]]]

LoadGroup(g, omegas, config) ==
  IF g.kind = "molecule" THEN LoadMoleculeGroup(g, config)
  ELSE LoadReactionGroup(g, omegas, config)

\* The generator runs from where it stands (before the group at l.pos, or
\* after the yield of its molecule branch) to its next yield or exception.
\* raised: what the reaction branch ends in on a group that holds the
\* datasets of a molecule.
LoaderStep(l, g, config, raised) ==
  IF ~l.resumed /\ NameHolds(g, "molecule")
  THEN IF g.kind # "molecule"
       THEN [l EXCEPT !.status = "KeyError", !.failed = 1]
       ELSE LET r == LoadGroup(g, l.omegas, config)
                again == NameHolds(g, "reaction")
            IN IF r.err = "ok"
               THEN [l EXCEPT !.pos = IF again THEN l.pos ELSE l.pos + 1,
                              !.resumed = again, !.omegas = r.omegas,
                              !.yielded = Append(l.yielded, r.item)]
               ELSE [l EXCEPT !.omegas = r.omegas, !.status = r.err,
                              !.failed = r.failed]
  ELSE IF g.kind # "reaction"
       THEN [l EXCEPT !.status = raised, !.failed = 1]
       ELSE LET r == LoadGroup(g, l.omegas, config)
            IN IF r.err = "ok"
               THEN [l EXCEPT !.pos = l.pos + 1, !.resumed = FALSE,
                              !.omegas = r.omegas,
                              !.yielded = Append(l.yielded, r.item)]
               ELSE [l EXCEPT !.omegas = r.omegas, !.status = r.err,
                              !.failed = r.failed]

\* ------------------------------------------------------------ fxx_save
\* Omegas handed to fxx_save: a negative value, 0 (no range separation) and
\* the positive values.
SaveOmegas == (0 - 1) .. MaxOmega

\* The omegas argument: a scalar, or a list without repetition (possibly empty).
OmegaArgs ==
  {[scalar |-> TRUE, list |-> <<w>>] : w \in SaveOmegas}
    \cup {[scalar |-> FALSE, list |-> l] :
            l \in {x \in UNION {[1 .. n -> SaveOmegas] : n \in 0 .. MaxStored} :
                     \A i, j \in DOMAIN x : x[i] = x[j] => i = j}}

\* What may stand where a Molecule is expected: a Molecule (named or not), or
\* some other object.
SaveItems ==
  {[kind |-> "Molecule", name |-> ""], [kind |-> "Molecule", name |-> "a"],
   [kind |-> "Molecule", name |-> "reaction"], [kind |-> "other", name |-> ""]}

\* The molecules argument: one object, or a sequence of objects.
MoleculeArgs ==
  {[single |-> TRUE, items |-> <<x>>] : x \in SaveItems}
    \cup {[single |-> FALSE, items |-> l] :
            l \in UNION {[1 .. n -> SaveItems] : n \in 0 .. MaxMols}}

\* A group written by fxx_save: its name molecule_{name}_{j} or molecule_{j},
\* the omegas and chi datasets, and whether save_molecule_data completed it.
SavedGroup(item, j, omegas, placeholder, complete) ==
  [name |-> [mol |-> item.name, j |-> j], omegas |-> omegas,
   placeholder |-> placeholder, complete |-> complete]

\* The file on disk before the call: absent, or written by an earlier call.
ExistingFiles ==
  {[exists |-> FALSE, groups |-> <<>>],
   [exists |-> TRUE,
    groups |-> <<SavedGroup([kind |-> "Molecule", name |-> ""], 0, <<1, MaxOmega>>,
                            FALSE, TRUE)>>]}

\* if len(omegas) > 1: save_molecule_chi(...) else: the placeholder
\* jnp.empty((1)) is stored as chi.
ChiIsComputed(omegas) == Len(omegas) > 1

\* The body of the loop over molecules for the item at position j (from 0).
\* external: what the chi integrals of the external module do with a
\* negative omega (raise, or compute).
SaveOne(groups, item, j, omegas, external) ==
  IF item.kind # "Molecule" THEN [err |-> "AttributeError", groups |-> groups]
  ELSE IF \E k \in DOMAIN groups : groups[k].name = [mol |-> item.name, j |-> j]
  THEN [err |-> "ValueError", groups |-> groups]
  ELSE IF ChiIsComputed(omegas)
  THEN IF external = "raises" /\ \E k \in DOMAIN omegas : omegas[k] < 0
       THEN [err |-> "ValueError",
             groups |-> Append(groups, SavedGroup(item, j, <<>>, FALSE, FALSE))]
       ELSE [err |-> "ok",
             groups |-> Append(groups, SavedGroup(item, j, omegas, FALSE, TRUE))]
  ELSE [err |-> "ok",
        groups |-> Append(groups, SavedGroup(item, j, omegas, TRUE, TRUE))]

RECURSIVE SaveFrom(_, _, _, _, _)
\* for j, molecule in enumerate(molecules): ...
SaveFrom(groups, items, j, omegas, external) ==
  IF j >= Len(items) THEN [err |-> "ok", groups |-> groups]
  ELSE LET r == SaveOne(groups, items[j + 1], j, omegas, external)
       IN IF r.err # "ok" THEN r
          ELSE SaveFrom(r.groups, items, j + 1, omegas, external)

\* fxx_save(fname, omegas, molecules, training): the file it leaves and how
\* it ends.  The file is opened in append mode before anything is examined.
FxxSave(file, omegas_arg, molecules_arg, external) ==
  LET omegas == omegas_arg.list
      iterable == molecules_arg.single => molecules_arg.items[1].kind = "Molecule"
      r == SaveFrom(file.groups, molecules_arg.items, 0, omegas, external)
  IN IF ~iterable
     THEN [err |-> "TypeError", file |-> [exists |-> TRUE, groups |-> file.groups]]
     ELSE [err |-> r.err, file |-> [exists |-> TRUE, groups |-> r.groups]]

\* The groups of a saved file as fxx_loader reads them.
AsLoaderFile(file) ==
  [k \in DOMAIN file.groups |->
     [kind |-> "molecule", alias |-> file.groups[k].name.mol = "reaction",
      mols |-> <<[omegas |-> file.groups[k].omegas,
                  placeholder |-> file.groups[k].placeholder]>>]]

NotSaved == [done |-> FALSE, err |-> "none"]

\* ------------------------------------------------------ the train kernel
\* The systems of the training data: a feature and the ground-truth energy.
Systems == [x : 0 .. 1, energy : 0 .. 1]

\* The loss handed to make_train_kernel, under value_and_grad with has_aux:
\* (cost_value, predicted energy), grads = loss(params, system, truth),
\* with cost_value = (predicted_energy - true_energy) ** 2.
Loss(p, system, truth) ==
  LET predicted == p * system.x
  IN [cost_value |-> (predicted - truth) * (predicted - truth),
      predictedenergy |-> predicted,
      grads |-> 2 * (predicted - truth) * system.x]

\* The gradient transformations handed to make_train_kernel.
Transformations == {"momentum", "decay"}

\* tx.init(params)
TxInit(p) == [count |-> 0, mu |-> 0]

\* updates, opt_state = tx.update(grads, opt_state, params)
TxUpdate(tx, grads, opt_state, p) ==
  LET mu == opt_state.mu + grads
      decay == IF tx = "decay" THEN (IF p > 0 THEN 1 ELSE IF p < 0 THEN 0 - 1 ELSE 0)
               ELSE 0
  IN [updates |-> 0 - mu - decay,
      opt_state |-> [count |-> opt_state.count + 1, mu |-> mu]]

\* apply_updates(params, updates)
ApplyUpdates(p, updates) == p + updates

\* (a kernel that evaluates the loss again after the update and returns
\* the cost and the energy of the updated params)
KernelReportsUpdated(tx, p, opt_state, system, truth) ==
  LET l == Loss(p, system, truth)
      u == TxUpdate(tx, l.grads, opt_state, p)
      new == ApplyUpdates(p, u.updates)
      again == Loss(new, system, truth)
  IN [params |-> new, opt_state |-> u.opt_state,
      cost_value |-> again.cost_value, predictedenergy |-> again.predictedenergy,
      loss_at |-> <<p, new>>]

\* kernel(params, opt_state, system, ground_truth_energy): what it returns,
\* and the params at which it evaluated the loss.
Kernel(tx, p, opt_state, system, truth) ==
  LET l == Loss(p, system, truth)
      u == TxUpdate(tx, l.grads, opt_state, p)
  IN [params |-> ApplyUpdates(p, u.updates), opt_state |-> u.opt_state,
      cost_value |-> l.cost_value, predictedenergy |-> l.predictedenergy,
      loss_at |-> <<p>>]

InitialLoader ==
  [pos |-> 1, omegas |-> [bound |-> FALSE, list |-> <<>>], yielded |-> <<>>,
   status |-> "running", failed |-> 0, resumed |-> FALSE]

VARIABLES
  functional,     \* the Functional handed to molecule_predictor
  nlc_functional, \* the DispersionFunctional handed to it: present or None
  molecule,       \* the Molecule handed to predict
  params,         \* the functional parameters handed to predict
  result,         \* what the call predict(params, molecule) did and returned
  functionalB,    \* the Functional of a second predictor
  resultB,        \* what the second predictor's predict(params, molecule) did
  scf_config,     \* the configuration of the SCF run
  scf,            \* the SCF iterator: status, cycle count, current state
  extra,          \* one more cycle run from the state a converged run returned
  h5file,         \* the groups of the file fxx_loader reads, in the order read
  config_omegas,  \* the config_omegas handed to fxx_loader
  loader,         \* the generator: next group, local omegas, items yielded
  last,           \* what the latest call on the predictor returned
  others,         \* the number of calls made between a call and its repetition
  repeated,          \* what the repetition of the first call returned
  given,          \* the initial state object the caller hands to its SCF runs
  scfB,           \* a second SCF run started from the same state object
  session,        \* what the caller's session consists of: calls, runs, a batch, or neither
  scf_configB,    \* the configuration (molecule included) of the second run of a batch
  givenB,         \* the initial state object of the second run of a batch
  calc,           \* the calculation handed to the packaging
  packaged,       \* what the packaging returned (shapes) or raised
  shaped,         \* the shape of the Fock operator predict returned for it
  mf,             \* the arrays of the calculation handed to the packaging
  arrays,         \* the spin-resolved arrays the packaging returned
  save_call,      \* the arguments of fxx_save and the file before the call
  h5disk,         \* the file on disk
  saved,          \* how the call of fxx_save ended
  training        \* the training loop: tx, params, opt_state, the kernel calls made

predictVars ==
  <<functional, nlc_functional, molecule, params, result, functionalB, resultB>>

scfVars == <<scf_config, scf, extra>>

loadVars == <<h5file, config_omegas, loader>>

sessionVars == <<last, others, repeated, given, scfB, session, scf_configB, givenB>>

packVars == <<calc, packaged, shaped, mf, arrays>>

saveVars == <<save_call, h5disk, saved>>

trainVars == <<training>>

vars == <<predictVars, scfVars, loadVars, sessionVars, packVars, saveVars, trainVars>>

\* ---------------------------------------------------------------------
\* The predictor at rest (for the specifications of the other components).
IdlePredict ==
  /\ functional = [energy_densities |-> FALSE, nograd_densities |-> FALSE,
                   densitygrads |-> FALSE, coefficient_inputs |-> FALSE,
                   nograd_coefficient_inputs |-> FALSE,
                   coefficient_input_grads |-> FALSE, is_xc |-> FALSE,
                   weights |-> ZeroMat, vxc_d |-> ZeroMat, vxc_c |-> ZeroMat,
                   nograd_tan |-> ZeroMat]
  /\ nlc_functional = FALSE
  /\ molecule = [rdm1 |-> ZeroMat, h1e |-> Zero2, rep_tensor |-> NoRep]
  /\ params = [w |-> 1, has_dispersion |-> FALSE, dispersion |-> 2]
  /\ result = NoResult
  /\ functionalB = functional
  /\ resultB = NoResult

IdleConfig ==
  [max_cycles |-> 1, tol |-> 1, nelec |-> [s \in Spins |-> 0],
   U |-> 0, degenerate |-> FALSE, field |-> 0,
   blowup |-> "never", blowup_orb |-> 1]

IdleScf ==
  /\ scf_config = IdleConfig
  /\ scf = InitialScf([s \in Spins |-> [i \in Orbs |-> 0]])
  /\ extra = NoExtra

IdleLoader ==
  /\ h5file = <<>>
  /\ config_omegas = [some |-> FALSE, list |-> <<>>]
  /\ loader = [InitialLoader EXCEPT !.status = "done"]

IdleSave ==
  /\ save_call = [omegas |-> [scalar |-> FALSE, list |-> <<>>],
                  molecules |-> [single |-> FALSE, items |-> <<>>],
                  before |-> [exists |-> FALSE, groups |-> <<>>]]
  /\ h5disk = save_call.before
  /\ saved = NotSaved

IdleTrain ==
  training = [tx |-> "momentum", params |-> 0, opt_state |-> TxInit(0), steps |-> <<>>]

IdleMeanField ==
  [restricted |-> TRUE, mo_coeff |-> [i \in Orbs |-> [j \in Orbs |-> 0]],
   mo_energy |-> [i \in Orbs |-> 0], mo_occ |-> [i \in Orbs |-> 0]]

IdlePack ==
  /\ calc = [ndim |-> 2, nao |-> 1, training |-> FALSE]
  /\ packaged = NotPackaged
  /\ shaped = NotShaped
  /\ mf = IdleMeanField
  /\ arrays = NoArrays

IdleSession ==
  /\ last = NoResult
  /\ others = 0
  /\ repeated = NoResult
  /\ given = [s \in Spins |-> [i \in Orbs |-> 0]]
  /\ scfB = InitialScf(given)
  /\ session = "none"
  /\ scf_configB = IdleConfig
  /\ givenB = given

\* ---------------------------------------------------------------------
\* One predictor, one call: the inputs are drawn, predict is applied.
InitPredict ==
  /\ functional \in Functionals
  /\ nlc_functional \in BOOLEAN
  /\ molecule \in Molecules
  /\ params \in Params
  /\ result = NoResult
  /\ functionalB = functional
  /\ resultB = NoResult

\* predicted_e, fock = predict(params, molecule)
CallPredict ==
  /\ ~result.done
  /\ result' = Predict(functional, nlc_functional, params, molecule)
  /\ UNCHANGED <<functional, nlc_functional, molecule, params, functionalB, resultB>>
  /\ UNCHANGED scfVars
  /\ UNCHANGED loadVars
  /\ UNCHANGED packVars
  /\ UNCHANGED saveVars
  /\ UNCHANGED trainVars
  /\ UNCHANGED sessionVars

NextPredict == CallPredict

Init == IdleScf /\ IdleLoader /\ IdleSession /\ IdlePack /\ IdleSave /\ IdleTrain /\ InitPredict

Spec == Init /\ [][NextPredict]_vars

\* ---------------------------------------------------------------------
\* Two predictors whose functionals differ only in the internal
\* implementation of the without-grad generators (same output value),
\* called on the same params and molecule.
InitPair ==
  /\ functional \in Functionals
  /\ functionalB \in {[functional EXCEPT !.nograd_tan = t] : t \in NogradTans}
  /\ functionalB \in Functionals
  /\ nlc_functional = FALSE
  /\ molecule \in {m \in Molecules : IsSymmetric2(m.h1e) /\ m.h1e # Zero2}
  /\ params \in {p \in Params : ~p.has_dispersion}
  /\ result = NoResult
  /\ resultB = NoResult

CallPredictB ==
  /\ ~resultB.done
  /\ resultB' = Predict(functionalB, nlc_functional, params, molecule)
  /\ UNCHANGED <<functional, nlc_functional, molecule, params, functionalB, result>>
  /\ UNCHANGED scfVars
  /\ UNCHANGED loadVars
  /\ UNCHANGED packVars
  /\ UNCHANGED saveVars
  /\ UNCHANGED trainVars
  /\ UNCHANGED sessionVars

NextPair == CallPredict \/ CallPredictB

InitSpecPair == IdleScf /\ IdleLoader /\ IdleSession /\ IdlePack /\ IdleSave /\ IdleTrain /\ InitPair

SpecPair == InitSpecPair /\ [][NextPair]_vars

\* ---------------------------------------------------------------------
\* One SCF run: the configuration and the initial state are drawn; the
\* initial occupations hold the configured electrons of each spin.
InitScf ==
  /\ scf_config \in ScfConfigs
  /\ \E occ \in [Spins -> [Orbs -> {0, 1}]] :
       /\ \A s \in Spins : occ[s] \in Occs(scf_config.nelec[s])
       /\ scf = InitialScf(occ)
  /\ extra = NoExtra

\* The iterator runs its next cycle.
RunCycle ==
  /\ scf.status \in {"INITIALIZED", "ITERATING"}
  /\ scf' = ScfCycle(scf_config, scf)
  /\ UNCHANGED <<scf_config, extra>>
  /\ UNCHANGED predictVars
  /\ UNCHANGED loadVars
  /\ UNCHANGED packVars
  /\ UNCHANGED saveVars
  /\ UNCHANGED trainVars
  /\ UNCHANGED sessionVars

\* The caller runs one more cycle from the state a converged run returned.
RunExtraCycle ==
  /\ scf.status = "CONVERGED"
  /\ ~extra.done
  /\ LET again == ScfCycle(scf_config, [scf EXCEPT !.status = "ITERATING"])
     IN extra' = [done |-> TRUE, energy |-> again.energy, raised |-> again.raised]
  /\ UNCHANGED <<scf_config, scf>>
  /\ UNCHANGED predictVars
  /\ UNCHANGED loadVars
  /\ UNCHANGED packVars
  /\ UNCHANGED saveVars
  /\ UNCHANGED trainVars
  /\ UNCHANGED sessionVars

NextScf == RunCycle \/ RunExtraCycle

InitSpecScf == IdlePredict /\ IdleLoader /\ IdleSession /\ IdlePack /\ IdleSave /\ IdleTrain /\ InitScf

SpecScf == InitSpecScf /\ [][NextScf]_vars

\* The loop of the iterator goes on by itself: a cycle that can run does run.
SpecScfFair == InitSpecScf /\ [][NextScf]_vars /\ WF_vars(RunCycle)

\* ---------------------------------------------------------------------
\* One load: the file and config_omegas are drawn; the generator is advanced
\* until it is exhausted or raises.
InitLoader ==
  /\ h5file \in Files
  /\ config_omegas \in ConfigOmegas
  /\ loader = InitialLoader

\* next(fxx_loader(...)): the next group is read and its item is yielded, or
\* the error of its chi selection is raised.
YieldNext ==
  /\ loader.status = "running"
  /\ loader.pos <= Len(h5file)
  /\ \E raised \in {"KeyError", "IndexError", "ValueError"} :
       loader' = LoaderStep(loader, h5file[loader.pos], config_omegas, raised)
  /\ UNCHANGED <<h5file, config_omegas>>
  /\ UNCHANGED predictVars
  /\ UNCHANGED scfVars
  /\ UNCHANGED sessionVars
  /\ UNCHANGED packVars
  /\ UNCHANGED saveVars
  /\ UNCHANGED trainVars

\* next(...) after the last group: the generator is exhausted.
Exhaust ==
  /\ loader.status = "running"
  /\ loader.pos > Len(h5file)
  /\ loader' = [loader EXCEPT !.status = "done"]
  /\ UNCHANGED <<h5file, config_omegas>>
  /\ UNCHANGED predictVars
  /\ UNCHANGED scfVars
  /\ UNCHANGED sessionVars
  /\ UNCHANGED packVars
  /\ UNCHANGED saveVars
  /\ UNCHANGED trainVars

NextLoader == YieldNext \/ Exhaust

InitSpecLoader == IdlePredict /\ IdleScf /\ IdleSession /\ IdlePack /\ IdleSave /\ IdleTrain /\ InitLoader

SpecLoader == InitSpecLoader /\ [][NextLoader]_vars

\* ---------------------------------------------------------------------
\* Files whose molecules and reactions carry any name are loaded.
InitNames ==
  /\ h5file \in NamedFiles
  /\ config_omegas \in {[some |-> FALSE, list |-> <<>>], [some |-> TRUE, list |-> <<>>]}
  /\ loader = InitialLoader

InitSpecNames == IdlePredict /\ IdleScf /\ IdleSession /\ IdlePack /\ IdleSave /\ IdleTrain /\ InitNames

SpecNames == InitSpecNames /\ [][NextLoader]_vars

\* ---------------------------------------------------------------------
\* A session of a caller: either it calls one predictor on (params, molecule),
\* makes other calls on it, and repeats the first call; or it hands one
\* initial state object to two SCF runs of the same configuration.
SessionFunctionals ==
  {f \in Functionals : /\ ValidFunctional(f)
                       /\ f.energy_densities /\ f.coefficient_inputs
                       /\ f.nograd_tan = ZeroMat}

InitRepeat ==
  /\ functional \in SessionFunctionals
  /\ nlc_functional \in BOOLEAN
  /\ molecule \in Molecules
  /\ params \in Params
  /\ result = NoResult
  /\ functionalB = functional
  /\ resultB = NoResult
  /\ last = NoResult
  /\ others = 0
  /\ repeated = NoResult
  /\ given = [s \in Spins |-> [i \in Orbs |-> 0]]
  /\ scfB = InitialScf(given)
  /\ session = "calls"
  /\ scf_configB = IdleConfig
  /\ givenB = given

InitTwins ==
  /\ scf_config \in ScfConfigs
  /\ given \in [Spins -> [Orbs -> {0, 1}]]
  /\ \A s \in Spins : given[s] \in Occs(scf_config.nelec[s])
  /\ scf = InitialScf(given)
  /\ scfB = InitialScf(given)
  /\ extra = NoExtra
  /\ last = NoResult
  /\ others = 0
  /\ repeated = NoResult
  /\ session = "runs"
  /\ scf_configB = IdleConfig
  /\ givenB = given

InitSession ==
  /\ IdleLoader
  /\ IdlePack
  /\ IdleSave /\ IdleTrain
  /\ \/ IdleScf /\ InitRepeat
     \/ IdlePredict /\ InitTwins

\* predicted_e, fock = predict(params, molecule): the first call
CallFirst ==
  /\ session = "calls"
  /\ ~result.done
  /\ result' = Rebuild(last, Predict(functional, nlc_functional, params, molecule))
  /\ last' = result'
  /\ molecule' = MoleculeAfter(functional, molecule)
  /\ UNCHANGED <<functional, nlc_functional, params, functionalB, resultB>>
  /\ UNCHANGED <<others, repeated, given, scfB, session, scf_configB, givenB>>
  /\ UNCHANGED scfVars
  /\ UNCHANGED loadVars
  /\ UNCHANGED packVars
  /\ UNCHANGED saveVars
  /\ UNCHANGED trainVars

\* predict(params, other): a call on another molecule in between
CallOther ==
  /\ session = "calls"
  /\ result.done /\ ~repeated.done
  /\ others < MaxOthers
  /\ \E rdm1 \in Rdm1s :
       last' = Rebuild(last, Predict(functional, nlc_functional, params,
                                     [molecule EXCEPT !.rdm1 = rdm1]))
  /\ others' = others + 1
  /\ UNCHANGED predictVars
  /\ UNCHANGED <<repeated, given, scfB, session, scf_configB, givenB>>
  /\ UNCHANGED scfVars
  /\ UNCHANGED loadVars
  /\ UNCHANGED packVars
  /\ UNCHANGED saveVars
  /\ UNCHANGED trainVars

\* predict(params, molecule) once more
CallAgain ==
  /\ session = "calls"
  /\ result.done /\ ~repeated.done
  /\ repeated' = Rebuild(last, Predict(functional, nlc_functional, params, molecule))
  /\ last' = repeated'
  /\ molecule' = MoleculeAfter(functional, molecule)
  /\ UNCHANGED <<functional, nlc_functional, params, result, functionalB, resultB>>
  /\ UNCHANGED <<others, given, scfB, session, scf_configB, givenB>>
  /\ UNCHANGED scfVars
  /\ UNCHANGED loadVars
  /\ UNCHANGED packVars
  /\ UNCHANGED saveVars
  /\ UNCHANGED trainVars

\* The state a run works on: in its first cycle it reads the state object
\* it was handed.
StateOf(run) == IF run.cycle = 0 THEN InitialScf(given) ELSE run

\* A cycle of the first run
RunCycleA ==
  /\ session = "runs"
  /\ scf.status \in {"INITIALIZED", "ITERATING"}
  /\ scf' = ScfCycle(scf_config, StateOf(scf))
  /\ given' = KeepSnapshot(given, scf'.mo_occ)
  /\ UNCHANGED <<scf_config, extra>>
  /\ UNCHANGED <<last, others, repeated, scfB, session, scf_configB, givenB>>
  /\ UNCHANGED predictVars
  /\ UNCHANGED loadVars
  /\ UNCHANGED packVars
  /\ UNCHANGED saveVars
  /\ UNCHANGED trainVars

\* A cycle of the second run
RunCycleB ==
  /\ session = "runs"
  /\ scfB.status \in {"INITIALIZED", "ITERATING"}
  /\ scfB' = ScfCycle(scf_config, StateOf(scfB))
  /\ given' = KeepSnapshot(given, scfB'.mo_occ)
  /\ UNCHANGED scfVars
  /\ UNCHANGED <<last, others, repeated, session, scf_configB, givenB>>
  /\ UNCHANGED predictVars
  /\ UNCHANGED loadVars
  /\ UNCHANGED packVars
  /\ UNCHANGED saveVars
  /\ UNCHANGED trainVars

NextSession == CallFirst \/ CallOther \/ CallAgain \/ RunCycleA \/ RunCycleB

SpecSession == InitSession /\ [][NextSession]_vars

\* ---------------------------------------------------------------------
\* A batch: two SCF runs on different molecules with the same iterator
\* settings, their cycles interleaved in any order.
BatchConfigs ==
  {c \in ScfConfigs : /\ c.blowup = "never" /\ ~c.degenerate
                       /\ c.tol = 1 /\ c.max_cycles = MaxCycles}

\* The state a run of the batch executed alone is in after k cycles.
RECURSIVE SoloRun(_, _, _)
SoloRun(c, occ, k) ==
  IF k = 0 THEN InitialScf(occ)
  ELSE LET before == SoloRun(c, occ, k - 1) IN ScfCycle(c, before)

\* (a batch in which a cycle works on the state the other run left)
StateOfOther(own, other) == IF other.cycle > 0 THEN other ELSE own

\* Each run owns its state: a cycle reads the state of its own run.
StateOwned(own, other) == own

\* (a batch that stops at the first run that ends without converging)
ContinuesUnlessFailed(own, other) ==
  /\ own.status \in {"INITIALIZED", "ITERATING"}
  /\ other.status # "MAX_CYCLES_EXCEEDED"

\* Non-convergence is data: a run goes on whatever the other run returned.
Continues(own, other) == own.status \in {"INITIALIZED", "ITERATING"}

InitBatch ==
  /\ scf_config \in BatchConfigs
  /\ given \in [Spins -> [Orbs -> {0, 1}]]
  /\ \A s \in Spins : given[s] \in Occs(scf_config.nelec[s])
  /\ \E nelec \in [Spins -> 0 .. NOrb], U \in 0 .. MaxU :
       /\ scf_configB = [scf_config EXCEPT !.nelec = nelec, !.U = U]
       /\ scf_configB # scf_config
  /\ givenB \in [Spins -> [Orbs -> {0, 1}]]
  /\ \A s \in Spins : givenB[s] \in Occs(scf_configB.nelec[s])
  /\ scf = InitialScf(given)
  /\ scfB = InitialScf(givenB)
  /\ extra = NoExtra
  /\ last = NoResult
  /\ others = 0
  /\ repeated = NoResult
  /\ session = "batch"

\* A cycle of the first run of the batch
RunBatchA ==
  /\ session = "batch"
  /\ Continues(scf, scfB)
  /\ scf' = ScfCycle(scf_config, StateOwned(scf, scfB))
  /\ UNCHANGED <<scf_config, extra>>
  /\ UNCHANGED sessionVars
  /\ UNCHANGED predictVars
  /\ UNCHANGED loadVars
  /\ UNCHANGED packVars
  /\ UNCHANGED saveVars
  /\ UNCHANGED trainVars

\* A cycle of the second run of the batch
RunBatchB ==
  /\ session = "batch"
  /\ Continues(scfB, scf)
  /\ scfB' = ScfCycle(scf_configB, StateOwned(scfB, scf))
  /\ UNCHANGED <<last, others, repeated, given, session, scf_configB, givenB>>
  /\ UNCHANGED scfVars
  /\ UNCHANGED predictVars
  /\ UNCHANGED loadVars
  /\ UNCHANGED packVars
  /\ UNCHANGED saveVars
  /\ UNCHANGED trainVars

NextBatch == RunBatchA \/ RunBatchB

InitSpecBatch == IdlePredict /\ IdleLoader /\ IdlePack /\ IdleSave /\ IdleTrain /\ InitBatch

SpecBatch == InitSpecBatch /\ [][NextBatch]_vars

\* ---------------------------------------------------------------------
\* A calculation is packaged into a Molecule, and a predictor is called on it.
InitPack ==
  /\ calc \in Calculations
  /\ functional \in {f \in Functionals :
                       /\ ValidFunctional(f) /\ PresentOf(f) = {"nograd_densities", "nograd_coefficient_inputs"}
                       /\ f.weights = ZeroMat /\ f.nograd_tan = ZeroMat
                       /\ f.vxc_d \in {ZeroMat, UnitMat(0, 1, NOrb, 2)}
                       /\ f.vxc_c \in {ZeroMat, UnitMat(0, 1, NOrb, 2)}}
  /\ nlc_functional = FALSE
  /\ molecule = [rdm1 |-> ZeroMat, h1e |-> Zero2, rep_tensor |-> NoRep]
  /\ params = [w |-> 1, has_dispersion |-> FALSE, dispersion |-> 2]
  /\ result = NoResult
  /\ functionalB = functional
  /\ resultB = NoResult
  /\ packaged = NotPackaged
  /\ shaped = NotShaped
  /\ mf = IdleMeanField
  /\ arrays = NoArrays

\* molecule_from_pyscf(mf, training=...)
Package ==
  /\ ~packaged.done
  /\ packaged' = PackageOutputs(calc)
  /\ UNCHANGED <<calc, shaped, mf, arrays>>
  /\ UNCHANGED predictVars
  /\ UNCHANGED scfVars
  /\ UNCHANGED loadVars
  /\ UNCHANGED sessionVars
  /\ UNCHANGED saveVars
  /\ UNCHANGED trainVars

\* predict(params, molecule) on the packaged molecule
PredictPackaged ==
  /\ packaged.done /\ packaged.err = "ok"
  /\ ~shaped.done
  /\ shaped' = PredictShape(functional, packaged)
  /\ UNCHANGED <<calc, packaged, mf, arrays>>
  /\ UNCHANGED predictVars
  /\ UNCHANGED scfVars
  /\ UNCHANGED loadVars
  /\ UNCHANGED sessionVars
  /\ UNCHANGED saveVars
  /\ UNCHANGED trainVars

NextPack == Package \/ PredictPackaged

InitSpecPack == IdleScf /\ IdleLoader /\ IdleSession /\ IdleSave /\ IdleTrain /\ InitPack

SpecPack == InitSpecPack /\ [][NextPack]_vars

\* ---------------------------------------------------------------------
\* The arrays of a restricted or unrestricted calculation are packaged.
InitArrays ==
  /\ calc = [ndim |-> 2, nao |-> 1, training |-> FALSE]
  /\ packaged = NotPackaged
  /\ shaped = NotShaped
  /\ mf \in MeanFields
  /\ arrays = NoArrays

\* molecule_from_pyscf(mf): the arrays of the Molecule
PackageCalculation ==
  /\ ~arrays.done
  /\ arrays' = PackageArrays(mf)
  /\ UNCHANGED <<calc, packaged, shaped, mf>>
  /\ UNCHANGED predictVars
  /\ UNCHANGED scfVars
  /\ UNCHANGED loadVars
  /\ UNCHANGED sessionVars
  /\ UNCHANGED saveVars
  /\ UNCHANGED trainVars

NextArrays == PackageCalculation

InitSpecArrays ==
  IdlePredict /\ IdleScf /\ IdleLoader /\ IdleSession /\ IdleSave /\ IdleTrain /\ InitArrays

SpecArrays == InitSpecArrays /\ [][NextArrays]_vars

\* ---------------------------------------------------------------------
\* The training loop: the kernel is called on one system after another, and
\* each call is handed the params and opt_state the loop holds.
InitTrain ==
  \E tx \in Transformations, p \in (0 - MaxWeight) .. MaxWeight :
     training = [tx |-> tx, params |-> p, opt_state |-> TxInit(p), steps |-> <<>>]

\* params, opt_state, cost_val, metrics = kernel(params, opt_state, system, system.energy)
TrainStep ==
  /\ Len(training.steps) < MaxSteps
  /\ \E system \in Systems :
       LET r == Kernel(training.tx, training.params, training.opt_state,
                       system, system.energy)
       IN training' =
            [training EXCEPT
               !.params = r.params, !.opt_state = r.opt_state,
               !.steps = Append(training.steps,
                                [params |-> training.params,
                                 opt_state |-> training.opt_state,
                                 system |-> system, returned |-> r])]
  /\ UNCHANGED predictVars
  /\ UNCHANGED scfVars
  /\ UNCHANGED loadVars
  /\ UNCHANGED sessionVars
  /\ UNCHANGED packVars
  /\ UNCHANGED saveVars

NextTrain == TrainStep

InitSpecTrain ==
  IdlePredict /\ IdleScf /\ IdleLoader /\ IdleSession /\ IdlePack /\ IdleSave /\ InitTrain

SpecTrain == InitSpecTrain /\ [][NextTrain]_vars

\* ------------------------------------------------- saving, then loading
InitSave ==
  /\ save_call \in [omegas : OmegaArgs, molecules : MoleculeArgs, before : ExistingFiles]
  /\ h5disk = save_call.before
  /\ saved = NotSaved

\* fxx_save(fname, omegas, molecules)
Save ==
  /\ ~saved.done
  /\ \E external \in {"raises", "computes"} :
       LET r == FxxSave(h5disk, save_call.omegas, save_call.molecules, external)
       IN /\ h5disk' = r.file
          /\ saved' = [done |-> TRUE, err |-> r.err]
  /\ UNCHANGED save_call
  /\ UNCHANGED predictVars
  /\ UNCHANGED scfVars
  /\ UNCHANGED loadVars
  /\ UNCHANGED sessionVars
  /\ UNCHANGED packVars
  /\ UNCHANGED trainVars

\* fxx_loader(fname, randomize, training, config_omegas = the saved omegas) on
\* the file the call has left
OpenSaved ==
  /\ saved.done /\ saved.err = "ok"
  /\ loader.status = "done" /\ ~config_omegas.some
  /\ h5file' = AsLoaderFile(h5disk)
  /\ config_omegas' = [some |-> TRUE, list |-> save_call.omegas.list]
  /\ loader' = InitialLoader
  /\ UNCHANGED saveVars
  /\ UNCHANGED trainVars
  /\ UNCHANGED predictVars
  /\ UNCHANGED scfVars
  /\ UNCHANGED sessionVars
  /\ UNCHANGED packVars

NextSave == Save \/ OpenSaved \/ YieldNext \/ Exhaust

InitSpecSave ==
  IdlePredict /\ IdleScf /\ IdleSession /\ IdlePack /\ IdleLoader /\ IdleTrain /\ InitSave

SpecSave == InitSpecSave /\ [][NextSave]_vars

\* ============================================================ claims
\* The call has what the classical and the dispersion term need.
TermsAvailable ==
  /\ functional.is_xc => molecule.rep_tensor.present
  /\ nlc_functional => params.has_dispersion

\* C1: whatever the capabilities of the functional, when h1e is symmetric the
\* Fock operator predict returns is symmetric in every spin slice.
Thm_C1_FockSymmetric ==
  (result.outcome = "ok" /\ IsSymmetric2(molecule.h1e)) => IsSymmetric(result.fock)

Wit_C1_FockSymmetric ==
  /\ result.outcome = "ok"
  /\ functional.is_xc
  /\ functional.densitygrads /\ functional.coefficient_input_grads
  /\ ~IsSymmetric(functional.weights)
  /\ ~IsSymmetric(functional.vxc_d)
  /\ IsSymmetric2(molecule.h1e) /\ molecule.h1e # Zero2
  /\ result.fock # ZeroMat

Claim_C7_EagerRepTensorError ==
  (result.done /\ functional.is_xc /\ ~molecule.rep_tensor.present) =>
     /\ result.outcome # "ok"
     /\ ~result.returned
     /\ "energy_and_grads" \notin result.steps

\* C9: two functionals that differ only in the internal implementation of
\* the without-grad generators give the same outcome, energy and Fock operator.
Thm_C9_NogradImplementationIrrelevant ==
  (result.done /\ resultB.done) =>
     /\ result.outcome = resultB.outcome
     /\ result.energy = resultB.energy
     /\ result.fock = resultB.fock

Wit_C9_NogradImplementationIrrelevant ==
  /\ result.outcome = "ok" /\ resultB.outcome = "ok"
  /\ functional.nograd_tan # functionalB.nograd_tan
  /\ functional.nograd_densities /\ functional.densitygrads
  /\ functional.nograd_coefficient_inputs /\ functional.coefficient_input_grads
  /\ result.nograd_densities.some

Thm_C4_DivergenceIsFatal ==
  [][/\ (scf.status \in {"INITIALIZED", "ITERATING"} /\ scf' # scf
          /\ Divergent(ScfPredict(scf_config, scf.mo_occ)))
         => /\ scf'.status = "DIVERGED" /\ scf'.raised
            /\ scf'.cycle = scf.cycle + 1
            /\ scf'.energy = ScfPredict(scf_config, scf.mo_occ).energy
            /\ scf'.mo_occ = scf.mo_occ
     /\ scf'.status # "DIVERGED" => (scf'.energy.fin /\ ~scf'.raised)
     /\ scf.status = "DIVERGED" => scf' = scf]_vars

Wit_C4_DivergenceIsFatal ==
  /\ scf.status = "DIVERGED"
  /\ scf.cycle >= 2
  /\ ~scf.energy.fin

\* C5: in every cycle and for each spin the occupations, those of the current
\* state and those the cycle newly assigned, sum to the configured electrons.
Thm_C5_ElectronCount ==
  \A s \in Spins :
     /\ SumOver(scf.mo_occ[s], Orbs) = scf_config.nelec[s]
     /\ SumOver(scf.new_occ[s], Orbs) = scf_config.nelec[s]

Wit_C5_ElectronCount ==
  /\ scf.cycle >= 2
  /\ scf_config.degenerate /\ scf_config.U = 0
  /\ scf_config.nelec[0] = 1
  /\ scf.new_occ[0][1] = 1

Claim_C6_AbsentOmegaIsConfigError ==
  (config_omegas.some /\ config_omegas.list # <<>>) =>
     /\ \A n \in DOMAIN loader.yielded :
          \A k \in DOMAIN loader.yielded[n].mols :
             LET mol == loader.yielded[n].mols[k]
             IN /\ Range(config_omegas.list) \subseteq Range(mol.omegas)
                /\ mol.chi.some /\ ~mol.chi.placeholder
                /\ mol.chi.channels = config_omegas.list
     /\ (/\ loader.status \notin {"running", "done"}
         /\ ~(Range(config_omegas.list)
                \subseteq Range(h5file[loader.pos].mols[loader.failed].omegas)))
          => loader.status = "AssertionError"

\* The run has ended.
ScfTerminal == scf.status \in {"CONVERGED", "MAX_CYCLES_EXCEEDED", "DIVERGED"}

\* C11: every run stops: it never runs more than max_cycles cycles, it
\* eventually is CONVERGED, MAX_CYCLES_EXCEEDED or has raised the divergence
\* error, and once it is, no further cycle changes it.
Thm_C11_ScfTerminates ==
  /\ [](scf.cycle <= scf_config.max_cycles)
  /\ <>ScfTerminal
  /\ [][ScfTerminal => scf' = scf]_vars

Wit_C11_ScfTerminates ==
  /\ ScfTerminal
  /\ scf_config.max_cycles = MaxCycles
  /\ scf.cycle = MaxCycles
  /\ extra.done \/ scf.status # "CONVERGED"

Thm_C14_FockShape ==
  shaped.done =>
     /\ shaped.err = "ok" \/ (functional.is_xc /\ ~packaged.rep_tensor.present)
     /\ shaped.err = "ok" =>
          /\ shaped.fock = packaged.rdm1
          /\ shaped.fock = <<NSpin, calc.nao, calc.nao>>

Wit_C14_FockShape ==
  /\ shaped.done /\ shaped.err = "ok"
  /\ calc.ndim = 2 /\ calc.nao = MaxAo
  /\ functional.is_xc
  /\ functional.densitygrads /\ functional.coefficient_input_grads

\* C15 (as stated): a density matrix of rank other than 2 or 3 ends the
\* packaging in RuntimeError and no Molecule; ranks 2 and 3 are packaged
\* without error, as restricted and as unrestricted.
Claim_C15_InvalidRankIsRuntimeError ==
  packaged.done =>
     /\ calc.ndim \notin {2, 3} => (packaged.err = "RuntimeError" /\ ~shaped.done)
     /\ calc.ndim \in {2, 3} =>
          (packaged.err = "ok" /\ packaged.rdm1 = <<NSpin, calc.nao, calc.nao>>)

\* C16 (as stated): fxx_save ends in ValueError when an omega is negative
\* and in TypeError when molecules is neither a Molecule nor a sequence of
\* Molecules, and in both cases no group has been written to the file.
Claim_C16_SaveValidatesArguments ==
  LET omegas == save_call.omegas.list
      items == save_call.molecules.items
      negative == \E k \in DOMAIN omegas : omegas[k] < 0
      mistyped == \E k \in DOMAIN items : items[k].kind # "Molecule"
  IN (saved.done /\ (negative \/ mistyped)) =>
        /\ h5disk.groups = save_call.before.groups
        /\ \/ negative /\ saved.err = "ValueError"
           \/ mistyped /\ saved.err = "TypeError"

\* C17 (as stated): every molecule saved with a non-empty list of omegas,
\* of length 1 included, has a stored chi with one channel per omega, and
\* the loader asked for the saved omegas yields it with one chi channel per
\* requested omega.
Claim_C17_SavedChiHasOmegaAxis ==
  LET omegas == save_call.omegas.list
      old == Len(save_call.before.groups)
  IN (saved.done /\ saved.err = "ok" /\ omegas # <<>>) =>
        /\ \A k \in DOMAIN h5disk.groups :
              k > old => (~h5disk.groups[k].placeholder
                          /\ h5disk.groups[k].omegas = omegas)
        /\ (config_omegas.some /\ loader.pos > old) =>
              loader.status \in {"running", "done"}
        /\ \A k \in DOMAIN loader.yielded :
              (config_omegas.some /\ k > old) =>
                 (loader.yielded[k].mols[1].chi.some
                  /\ loader.yielded[k].mols[1].chi.channels = omegas)

Thm_C19_HookGetsWithoutGradFeatures ==
  /\ "densitygrads" \in result.steps =>
        /\ functional.nograd_densities
        /\ "nograd_densities" \in result.called
        /\ result.outcome = "ok" =>
              result.nograd_densities =
                 StopGradient(GenOutput(functional, "nograd_densities"))
  /\ "coefficient_input_grads" \in result.steps =>
        /\ functional.nograd_coefficient_inputs
        /\ "nograd_coefficient_inputs" \in result.called
        /\ result.outcome = "ok" =>
              result.nograd_cinputs =
                 StopGradient(GenOutput(functional, "nograd_coefficient_inputs"))

Wit_C19_HookGetsWithoutGradFeatures ==
  /\ result.outcome = "ok"
  /\ {"densitygrads", "coefficient_input_grads"} \subseteq result.steps
  /\ ~functional.energy_densities /\ functional.coefficient_inputs
  /\ functional.nograd_tan # ZeroMat
  /\ result.nograd_densities.some /\ result.nograd_cinputs.some

\* C20: the energy predict returns is functional.energy(params, molecule),
\* plus the dispersion energy exactly when a dispersion functional was given;
\* without one, params lacking the dispersion entry is no error.
Thm_C20_EnergyIsFunctionalPlusDispersion ==
  result.done =>
     /\ result.outcome = "ok" =>
           result.energy = FunctionalEnergy(functional, params, molecule).val
                           + (IF nlc_functional THEN params.dispersion ELSE 0)
     /\ ~nlc_functional => result.outcome # "KeyError"
     /\ (~nlc_functional /\ ValidFunctional(functional) /\ TermsAvailable)
           => result.outcome = "ok"

Wit_C20_EnergyIsFunctionalPlusDispersion ==
  /\ result.outcome = "ok"
  /\ nlc_functional /\ params.has_dispersion
  /\ FunctionalEnergy(functional, params, molecule).val # 0
  /\ result.energy # FunctionalEnergy(functional, params, molecule).val

\* C21: for a functional that is not XC-only the Fock operator is
\* (G + G^T)/2 for the gradient G of the energy, plus V + V^T for each hook
\* that is present and nothing for a hook that is absent, and adding the two
\* explicit terms in the other order gives the same operator.
Thm_C21_FockIsGradientPlusExplicit ==
  (result.outcome = "ok" /\ ~functional.is_xc) =>
     LET G == EnergyAndGrads(functional, nlc_functional, params, molecule.rdm1,
                             molecule).grad
         Vd == DensityGrads(functional, params, result.nograd_densities,
                            result.cinputs, result.grad_densities)
         Vc == CoefficientInputGrads(functional, params, result.nograd_cinputs,
                                     result.grad_cinputs, result.densities)
         Td == IF functional.densitygrads THEN MatAdd(Vd, Transpose(Vd)) ELSE ZeroMat
         Tc == IF functional.coefficient_input_grads
               THEN MatAdd(Vc, Transpose(Vc)) ELSE ZeroMat
         half == MatHalf(MatAdd(G, Transpose(G)))
     IN /\ result.fock = MatAdd(MatAdd(half, Td), Tc)
        /\ result.fock = MatAdd(MatAdd(half, Tc), Td)

Wit_C21_FockIsGradientPlusExplicit ==
  /\ result.outcome = "ok" /\ ~functional.is_xc
  /\ functional.densitygrads /\ functional.coefficient_input_grads
  /\ functional.vxc_d # functional.vxc_c
  /\ functional.vxc_d # Transpose(functional.vxc_d)
  /\ functional.weights # Transpose(functional.weights)

\* The Fock operator before the is_xc branch: the symmetrized gradient and
\* the explicit terms of the hooks that are present.
FockBeforeClassical ==
  LET G == EnergyAndGrads(functional, nlc_functional, params, molecule.rdm1,
                          molecule).grad
      Vd == DensityGrads(functional, params, result.nograd_densities,
                         result.cinputs, result.grad_densities)
      Vc == CoefficientInputGrads(functional, params, result.nograd_cinputs,
                                  result.grad_cinputs, result.densities)
      Td == IF functional.densitygrads THEN MatAdd(Vd, Transpose(Vd)) ELSE ZeroMat
      Tc == IF functional.coefficient_input_grads
            THEN MatAdd(Vc, Transpose(Vc)) ELSE ZeroMat
  IN MatAdd(MatAdd(MatHalf(MatAdd(G, Transpose(G))), Td), Tc)

\* C22: predict adds the Coulomb potential of the symmetrized rdm1 and the
\* h1e stacked over both spins exactly when is_xc is true; when it is false
\* neither is added and rdm1 is not symmetrized.
Thm_C22_ClassicalTermsIffXc ==
  /\ "coulomb_potential" \in result.steps => functional.is_xc
  /\ "h1e" \in result.steps => functional.is_xc
  /\ result.outcome = "ok" =>
        /\ functional.is_xc => {"coulomb_potential", "h1e"} \subseteq result.steps
        /\ result.fock =
              IF functional.is_xc
              THEN MatAdd(MatAdd(FockBeforeClassical,
                                 CoulombPotential(SymmetrizeRdm1(molecule.rdm1),
                                                  molecule.rep_tensor.t)),
                          Stack(molecule.h1e))
              ELSE FockBeforeClassical

Wit_C22_ClassicalTermsIffXc ==
  /\ result.outcome = "ok" /\ functional.is_xc
  /\ SymmetrizeRdm1(molecule.rdm1) # molecule.rdm1
  /\ CoulombPotential(SymmetrizeRdm1(molecule.rdm1), molecule.rep_tensor.t)
        # CoulombPotential(molecule.rdm1, molecule.rep_tensor.t)
  /\ molecule.h1e # Zero2

\* C23: in every cycle that assigns occupations, for each spin with N
\* electrons exactly N orbitals are occupied, no unoccupied orbital lies
\* strictly below an occupied one in the mo_energy of that cycle, and of two
\* orbitals of equal energy the one of smaller index is occupied first.
Thm_C23_LowestOrbitalsOccupied ==
  [][(scf'.cycle = scf.cycle + 1 /\ scf'.status # "DIVERGED") =>
       LET mo_energy == Diagonalize(ScfPredict(scf_config, scf.mo_occ).fock)
       IN \A s \in Spins :
            /\ SumOver(scf'.new_occ[s], Orbs) = scf_config.nelec[s]
            /\ \A i, j \in Orbs :
                  (scf'.new_occ[s][i] = 1 /\ scf'.new_occ[s][j] = 0) =>
                     /\ mo_energy[s][i] <= mo_energy[s][j]
                     /\ mo_energy[s][i] = mo_energy[s][j] => i < j]_vars

Wit_C23_LowestOrbitalsOccupied ==
  /\ scf.cycle >= 1 /\ scf.status # "DIVERGED"
  /\ scf_config.degenerate
  /\ scf_config.nelec[0] = 1 /\ scf_config.nelec[1] = 0
  /\ scf.new_occ[0][1] = 1
  /\ \E i \in Orbs : scf.new_occ[0][i] = 0

\* C24: every molecule yielded for a top-level molecule group has, for a
\* non-empty config_omegas, one chi channel per requested omega in the
\* requested order, channel k being the stored channel at the position of
\* config_omegas[k] in the stored omega list; with config_omegas = None it
\* has the stored chi as it is, and with config_omegas = [] it has no chi.
Thm_C24_ChiChannelsAsRequested ==
  \A n \in DOMAIN loader.yielded :
     h5file[n].kind = "molecule" =>
        LET m == h5file[n].mols[1]
            chi == loader.yielded[n].mols[1].chi
        IN /\ ~config_omegas.some => chi = StoredChi(m)
           /\ (config_omegas.some /\ config_omegas.list = <<>>) => chi = NoChi
           /\ (config_omegas.some /\ config_omegas.list # <<>>) =>
                 /\ chi.some
                 /\ Len(chi.channels) = Len(config_omegas.list)
                 /\ \A k \in DOMAIN config_omegas.list :
                       \E pos \in DOMAIN m.omegas :
                          /\ m.omegas[pos] = config_omegas.list[k]
                          /\ chi.channels[k] = StoredChi(m).channels[pos]

Wit_C24_ChiChannelsAsRequested ==
  /\ loader.yielded # <<>>
  /\ h5file[1].kind = "molecule"
  /\ config_omegas.some
  /\ Len(config_omegas.list) = 2 /\ Len(h5file[1].mols[1].omegas) = 2
  /\ config_omegas.list[1] = h5file[1].mols[1].omegas[2]
  /\ config_omegas.list[2] = h5file[1].mols[1].omegas[1]

\* C25 (as stated): a molecule stored inside a reaction group is checked and
\* selected against its own stored omega list, whatever groups were loaded
\* before it: what the loader yields for it, or the error it ends with, is
\* what the chi selection gives with that molecule's own omegas.
Claim_C25_ReactionUsesOwnOmegas ==
  /\ \A n \in DOMAIN loader.yielded :
        h5file[n].kind = "reaction" =>
           \A k \in DOMAIN h5file[n].mols :
              LET m == h5file[n].mols[k]
                  own == LoadChi(m, [bound |-> TRUE, list |-> m.omegas], config_omegas)
              IN own.err = "ok" /\ loader.yielded[n].mols[k].chi = own.chi
  /\ (/\ loader.status \notin {"running", "done"}
      /\ h5file[loader.pos].kind = "reaction") =>
        LET m == h5file[loader.pos].mols[loader.failed]
        IN loader.status =
             LoadChi(m, [bound |-> TRUE, list |-> m.omegas], config_omegas).err

\* C26: for a restricted calculation both spin slices of the packaged arrays
\* are the same, rdm1[s] is dm/2 and mo_occ[s] is mo_occ/2, so the sum over the
\* spins gives back dm and the electron count, and mo_coeff and mo_energy are
\* the calculation's in both slices; for an unrestricted calculation the
\* per-spin arrays are the calculation's.
Thm_C26_RestrictedIsHalved ==
  arrays.done =>
     LET dm == MfDm(mf)
     IN IF mf.restricted
        THEN /\ \A s \in Spins :
                  /\ arrays.rdm1[s] = arrays.rdm1[0]
                  /\ arrays.mo_occ[s] = arrays.mo_occ[0]
                  /\ arrays.mo_coeff[s] = mf.mo_coeff
                  /\ arrays.mo_energy[s] = mf.mo_energy
                  /\ \A i \in Orbs :
                        /\ 2 * arrays.mo_occ[s][i].num
                              = mf.mo_occ[i] * arrays.mo_occ[s][i].den
                        /\ \A j \in Orbs :
                              2 * arrays.rdm1[s][i][j].num
                                = dm[i][j] * arrays.rdm1[s][i][j].den
             /\ \A i, j \in Orbs :
                  RatIs(RatAdd(arrays.rdm1[0][i][j], arrays.rdm1[1][i][j]), dm[i][j])
             /\ \A i \in Orbs :
                  RatIs(RatAdd(arrays.mo_occ[0][i], arrays.mo_occ[1][i]), mf.mo_occ[i])
        ELSE \A s \in Spins :
                /\ arrays.mo_coeff[s] = mf.mo_coeff[s]
                /\ arrays.mo_energy[s] = mf.mo_energy[s]
                /\ \A i \in Orbs :
                      /\ RatIs(arrays.mo_occ[s][i], mf.mo_occ[s][i])
                      /\ \A j \in Orbs : RatIs(arrays.rdm1[s][i][j], dm[s][i][j])

Wit_C26_RestrictedIsHalved ==
  /\ arrays.done /\ mf.restricted
  /\ \E i \in Orbs : mf.mo_occ[i] = 1
  /\ \E i \in Orbs : mf.mo_occ[i] = NSpin
  /\ \E i, j \in Orbs : i # j /\ mf.mo_coeff[i][j] = 1

\* C27 (as stated): whatever the names of the molecules and reactions, the
\* loader raises nothing for a file whose molecules store the requested
\* omegas, yields the groups in the file's order, each as an item of the kind
\* it was saved as, and when it is exhausted it has yielded exactly one item
\* for each group.
Claim_C27_OneItemPerGroup ==
  /\ loader.status \in {"running", "done"}
  /\ Len(loader.yielded) <= Len(h5file)
  /\ \A n \in DOMAIN loader.yielded :
        n <= Len(h5file) => loader.yielded[n].kind = h5file[n].kind
  /\ loader.status = "done" => Len(loader.yielded) = Len(h5file)

\* C28 (as stated): a call of fxx_save on a file an earlier call has written
\* (with Molecules and omegas the external integrals accept) ends without
\* error, and the file then holds the groups of the earlier call unchanged
\* followed by one group for every molecule of this call, all of them under
\* distinct names.
Claim_C28_SavesAccumulate ==
  LET omegas == save_call.omegas.list
      items == save_call.molecules.items
      old == save_call.before.groups
      accepted == /\ \A k \in DOMAIN omegas : omegas[k] >= 0
                  /\ \A k \in DOMAIN items : items[k].kind = "Molecule"
  IN (saved.done /\ save_call.before.exists /\ accepted) =>
        /\ saved.err = "ok"
        /\ Len(h5disk.groups) = Len(old) + Len(items)
        /\ \A k \in DOMAIN old : h5disk.groups[k] = old[k]
        /\ \A i, j \in DOMAIN h5disk.groups :
              h5disk.groups[i].name = h5disk.groups[j].name => i = j

\* C29: every call of the kernel evaluates the loss once, at the params it
\* was handed; it returns apply_updates of those params with the updates of
\* tx.update(grads, handed opt_state, handed params), the opt_state of that
\* tx.update, and the cost value and predicted energy of the handed params;
\* and each call of the loop is handed what the call before it returned.
Thm_C29_KernelStepsFromIncoming ==
  \A k \in DOMAIN training.steps :
     LET s == training.steps[k]
         l == Loss(s.params, s.system, s.system.energy)
         u == TxUpdate(training.tx, l.grads, s.opt_state, s.params)
     IN /\ s.returned.loss_at = <<s.params>>
        /\ s.returned.params = ApplyUpdates(s.params, u.updates)
        /\ s.returned.opt_state = u.opt_state
        /\ s.returned.cost_value = l.cost_value
        /\ s.returned.predictedenergy = l.predictedenergy
        /\ k > 1 => /\ s.params = training.steps[k - 1].returned.params
                    /\ s.opt_state = training.steps[k - 1].returned.opt_state
        /\ k = Len(training.steps) => /\ training.params = s.returned.params
                                      /\ training.opt_state = s.returned.opt_state

\* Two calls in a row, each of which changes the params, the second with a
\* cost that differs between the params it was handed and those it returned.
Wit_C29_KernelStepsFromIncoming ==
  /\ Len(training.steps) >= 2
  /\ \A k \in 1 .. 2 :
        training.steps[k].returned.params # training.steps[k].params
  /\ LET s == training.steps[2]
     IN Loss(s.returned.params, s.system, s.system.energy).cost_value
          # s.returned.cost_value
====
